---- MODULE Spec2Model ----
(***************************************************************************)
(* A model of ts-pdf's byte parser (SyncDataParser) and of ResourceDict.   *)
(*                                                                         *)
(* A byte is a one-character string; the value read outside the buffer is  *)
(* Undef (JavaScript's undefined).  Indices are zero-based as in the code: *)
(* At(d, i) is d[i].  A loop of the code is a RECURSIVE operator over the  *)
(* loop's variables.  A loop that can never leave (its counter stays       *)
(* positive while every further read yields undefined) is the result Hang. *)
(***************************************************************************)
EXTENDS Integers, Sequences, FiniteSets, TLC

VARIABLES data, call, b, src, resolver, rd, out, rd2, annotator

vars == <<data, call, b, src, resolver, rd, out, rd2, annotator>>

\* The variables of a ResourceDict and of what it is parsed from.
resVars == <<src, resolver, rd, out, rd2>>

\* ------------------------------------------------------------ values

Undef == "undefined"
Nil == [nil |-> TRUE]
Hang == [hang |-> TRUE]

Max(x, y) == IF x > y THEN x ELSE y
Min(x, y) == IF x < y THEN x ELSE y

\* this._data[i]
At(d, i) == IF i >= 0 /\ i < Len(d) THEN d[i + 1] ELSE Undef

\* this._maxIndex
maxIndexOf(d) == Len(d) - 1

\* ------------------------------------------------- static collections

delimiterChars == {"%", "(", ")", "/", "<", ">", "[", "]", "{", "}"}

spaceChars == {"NUL", "\t", "\n", "\f", "\r", " "}

digitChars == {"0", "1", "2", "3", "4", "5", "6", "7", "8", "9"}

newLineChars == {"\r", "\n"}

\* ---------------------------------------------- static check methods

isRegularChar(code) ==
  IF code = Undef THEN FALSE
  ELSE code \notin delimiterChars /\ code \notin spaceChars

isNotRegularChar(code) ==
  IF code = Undef THEN TRUE
  ELSE code \in delimiterChars \/ code \in spaceChars

isDigit(code) == code \in digitChars

isNewLineChar(code) == code \in newLineChars

isSpaceChar(code) == code \in spaceChars

isNotSpaceChar(code) == code \notin spaceChars

isDelimiterChar(code) == code \in delimiterChars

isNotDelimiterChar(code) == code \notin delimiterChars

isOutside(d, index) == index < 0 \/ index > maxIndexOf(d)

\* ------------------------------------------------------ search methods

\* The forward loop of findSubarrayIndex: the match must start in i..maxI.
RECURSIVE findSubarrayForward(_, _, _, _, _)
findSubarrayForward(d, sub, i, maxI, allowOpened) ==
  IF i > maxI THEN Nil
  ELSE IF /\ \A j \in 0..(Len(sub) - 1) : At(d, i + j) = sub[j + 1]
          /\ (allowOpened \/ ~isRegularChar(At(d, i + Len(sub))))
       THEN [start |-> i, end |-> i + Len(sub) - 1]
       ELSE findSubarrayForward(d, sub, i + 1, maxI, allowOpened)

\* findSubarrayBackward with the closed check made on the byte after the match
\* end, as the forward loop makes it, instead of on the byte before its start.
RECURSIVE findSubarrayBackwardCheckingAfter(_, _, _, _, _)
findSubarrayBackwardCheckingAfter(d, sub, i, minI, allowOpened) ==
  IF i < minI THEN Nil
  ELSE IF /\ \A j \in 0..(Len(sub) - 1) : At(d, i - j) = sub[Len(sub) - j]
          /\ (allowOpened \/ ~isRegularChar(At(d, i + 1)))
       THEN [start |-> i - Len(sub) + 1, end |-> i]
       ELSE findSubarrayBackwardCheckingAfter(d, sub, i - 1, minI, allowOpened)

\* The backward loop of findSubarrayIndex: the match must end in minI..i.
RECURSIVE findSubarrayBackward(_, _, _, _, _)
findSubarrayBackward(d, sub, i, minI, allowOpened) ==
  IF i < minI THEN Nil
  ELSE IF /\ \A j \in 0..(Len(sub) - 1) : At(d, i - j) = sub[Len(sub) - j]
          /\ (allowOpened \/ ~isRegularChar(At(d, i - Len(sub))))
       THEN [start |-> i - Len(sub) + 1, end |-> i]
       ELSE findSubarrayBackward(d, sub, i - 1, minI, allowOpened)

findSubarrayIndex(d, sub, direction, optMin, optMax, closedOnly) ==
  IF Len(sub) = 0 THEN Nil
  ELSE LET minIndex == Max(Min(optMin, maxIndexOf(d)), 0)
           maxIndex == Max(Min(optMax, maxIndexOf(d)), 0)
           allowOpened == ~closedOnly
       IN IF direction
          THEN findSubarrayForward(d, sub, minIndex, maxIndex, allowOpened)
          ELSE findSubarrayBackward(d, sub, maxIndex, minIndex, allowOpened)

RECURSIVE findCharIndex(_, _, _, _)
findCharIndex(d, charCode, direction, i) ==
  IF direction
  THEN IF i > maxIndexOf(d) THEN -1
       ELSE IF At(d, i) = charCode THEN i
       ELSE findCharIndex(d, charCode, direction, i + 1)
  ELSE IF i < 0 THEN -1
       ELSE IF At(d, i) = charCode THEN i
       ELSE findCharIndex(d, charCode, direction, i - 1)

\* The scan of findNewLineIndex for the first line break (-1: none).
RECURSIVE lineBreakIndexOf(_, _, _)
lineBreakIndexOf(d, direction, i) ==
  IF direction
  THEN IF i > maxIndexOf(d) THEN -1
       ELSE IF isNewLineChar(At(d, i)) THEN i
       ELSE lineBreakIndexOf(d, direction, i + 1)
  ELSE IF i < 0 THEN -1
       ELSE IF isNewLineChar(At(d, i)) THEN i
       ELSE lineBreakIndexOf(d, direction, i - 1)

findNewLineIndex(d, direction, start) ==
  LET from(lineBreakIndex) ==
        IF lineBreakIndex = -1 THEN -1
        ELSE IF direction
             THEN Min((IF At(d, lineBreakIndex) = "\r" /\ At(d, lineBreakIndex + 1) = "\n"
                       THEN lineBreakIndex + 1 ELSE lineBreakIndex) + 1, maxIndexOf(d))
             ELSE Max((IF At(d, lineBreakIndex) = "\n" /\ At(d, lineBreakIndex - 1) = "\r"
                       THEN lineBreakIndex - 1 ELSE lineBreakIndex) - 1, 0)
  IN from(lineBreakIndexOf(d, direction, start))

RECURSIVE findNonSpaceIndex(_, _, _)
findNonSpaceIndex(d, direction, i) ==
  IF direction
  THEN IF i > maxIndexOf(d) THEN -1
       ELSE IF isNotSpaceChar(At(d, i)) THEN i
       ELSE findNonSpaceIndex(d, direction, i + 1)
  ELSE IF i < 0 THEN -1
       ELSE IF isNotSpaceChar(At(d, i)) THEN i
       ELSE findNonSpaceIndex(d, direction, i - 1)

RECURSIVE findDelimiterIndex(_, _, _)
findDelimiterIndex(d, direction, i) ==
  IF direction
  THEN IF i > maxIndexOf(d) THEN -1
       ELSE IF isDelimiterChar(At(d, i)) THEN i
       ELSE findDelimiterIndex(d, direction, i + 1)
  ELSE IF i < 0 THEN -1
       ELSE IF isDelimiterChar(At(d, i)) THEN i
       ELSE findDelimiterIndex(d, direction, i - 1)

\* -------------------------------------------------------- skip methods

skipEmpty(d, start) ==
  LET after(afterComment) ==
        IF afterComment = -1 THEN -1 ELSE findNonSpaceIndex(d, TRUE, afterComment)
      from(index) ==
        IF index = -1 THEN -1
        ELSE IF At(d, index) = "%" THEN after(findNewLineIndex(d, TRUE, index + 1))
        ELSE index
  IN from(findNonSpaceIndex(d, TRUE, start))

\* ------------------------------------------------------- value types

\* The result an index-returning method never produces: the call does not return.
HangIndex == 0 - 2

\* getValueTypeAt after skipEmpty, at the byte it dispatches on ("null": outside).
valueTypeAtByte(d, i) ==
  LET charCode == At(d, i)
  IN IF isOutside(d, i) THEN "null"
     ELSE IF charCode = "/"
          THEN (IF isRegularChar(At(d, i + 1)) THEN "NAME" ELSE "UNKNOWN")
     ELSE IF charCode = "[" THEN "ARRAY"
     ELSE IF charCode = "(" THEN "STRING_LITERAL"
     ELSE IF charCode = "<"
          THEN (IF At(d, i + 1) = "<" THEN "DICTIONARY" ELSE "STRING_HEX")
     ELSE IF charCode = "%" THEN "COMMENT"
     ELSE IF charCode \in digitChars
          THEN LET nextDelimIndex == findDelimiterIndex(d, TRUE, i + 1)
                   refEndIndex == findCharIndex(d, "R", FALSE, nextDelimIndex - 1)
               IN IF /\ nextDelimIndex # -1
                     /\ refEndIndex # -1
                     /\ refEndIndex > i
                     /\ ~isRegularChar(At(d, refEndIndex + 1))
                  THEN "REF" ELSE "NUMBER"
     ELSE IF charCode \in {".", "-"}
          THEN (IF isDigit(At(d, i + 1)) THEN "NUMBER" ELSE "UNKNOWN")
     ELSE IF charCode = "s"
          THEN (IF <<At(d, i + 1), At(d, i + 2), At(d, i + 3), At(d, i + 4), At(d, i + 5)>>
                     = <<"t", "r", "e", "a", "m">> THEN "STREAM" ELSE "UNKNOWN")
     ELSE IF charCode = "t"
          THEN (IF <<At(d, i + 1), At(d, i + 2), At(d, i + 3)>> = <<"r", "u", "e">>
                THEN "BOOLEAN" ELSE "UNKNOWN")
     ELSE IF charCode = "f"
          THEN (IF <<At(d, i + 1), At(d, i + 2), At(d, i + 3), At(d, i + 4)>>
                     = <<"a", "l", "s", "e">> THEN "BOOLEAN" ELSE "UNKNOWN")
     ELSE "UNKNOWN"

getValueTypeAt(d, start, skip) ==
  valueTypeAtByte(d, IF skip THEN skipEmpty(d, start) ELSE start)

\* -------------------------------------------------- get bounds methods

\* keywordCodes.OBJ, keywordCodes.OBJ_END, keywordCodes.XREF_TABLE and
\* keywordCodes.TRAILER
keywordOBJ == <<"o", "b", "j">>

keywordOBJ_END == <<"e", "n", "d", "o", "b", "j">>

keywordXREF_TABLE == <<"x", "r", "e", "f">>

keywordTRAILER == <<"t", "r", "a", "i", "l", "e", "r">>

getIndirectObjectBoundsAt(d, start0, skip) ==
  LET bounded(objStartIndex, contentStart, objEndIndex, contentEnd) ==
        IF /\ At(d, contentStart) = "<"
           /\ At(d, contentStart + 1) = "<"
           /\ At(d, contentEnd - 1) = ">"
           /\ At(d, contentEnd) = ">"
        THEN [start |-> objStartIndex.start, end |-> objEndIndex.end,
              contentStart |-> contentStart + 2, contentEnd |-> contentEnd - 2]
        ELSE [start |-> objStartIndex.start, end |-> objEndIndex.end,
              contentStart |-> contentStart, contentEnd |-> contentEnd]
      ended(objStartIndex, contentStart, objEndIndex) ==
        IF objEndIndex = Nil THEN Nil
        ELSE bounded(objStartIndex, contentStart, objEndIndex,
                     findNonSpaceIndex(d, FALSE, objEndIndex.start - 1))
      contented(objStartIndex, contentStart) ==
        IF contentStart = -1 THEN Nil
        ELSE ended(objStartIndex, contentStart,
                   findSubarrayIndex(d, keywordOBJ_END, TRUE, contentStart, maxIndexOf(d), TRUE))
      started(objStartIndex) ==
        IF objStartIndex = Nil THEN Nil
        ELSE contented(objStartIndex, findNonSpaceIndex(d, TRUE, objStartIndex.end + 1))
      at(start) ==
        IF isOutside(d, start) THEN Nil
        ELSE started(findSubarrayIndex(d, keywordOBJ, TRUE, start, maxIndexOf(d), TRUE))
  IN at(IF skip THEN skipEmpty(d, start0) ELSE start0)

getXrefTableBoundsAt(d, start0, skip) ==
  LET bounded(xrefStart, contentStart, xrefEnd, contentEnd) ==
        IF contentEnd < contentStart THEN Nil
        ELSE [start |-> xrefStart.start, end |-> xrefEnd.end,
              contentStart |-> contentStart, contentEnd |-> contentEnd]
      ended(xrefStart, contentStart, xrefEnd) ==
        IF xrefEnd = Nil THEN Nil
        ELSE bounded(xrefStart, contentStart, xrefEnd,
                     findNonSpaceIndex(d, FALSE, xrefEnd.start - 1))
      contented(xrefStart, contentStart) ==
        IF contentStart = -1 THEN Nil
        ELSE ended(xrefStart, contentStart,
                   findSubarrayIndex(d, keywordTRAILER, TRUE, xrefStart.end + 1,
                                     maxIndexOf(d), FALSE))
      started(xrefStart) ==
        IF xrefStart = Nil THEN Nil
        ELSE contented(xrefStart, findNonSpaceIndex(d, TRUE, xrefStart.end + 1))
      at(start) ==
        IF isOutside(d, start) \/ At(d, start) # "x" THEN Nil
        ELSE started(findSubarrayIndex(d, keywordXREF_TABLE, TRUE, start, maxIndexOf(d), FALSE))
  IN at(IF skip THEN skipEmpty(d, start0) ELSE start0)

\* One pass of the while (dictOpened) loop of getDictBoundsAt over the loop's
\* variables; the variables are left as they are once the loop has been left.
dictStep(d, s) ==
  IF s.dictOpened = 0 THEN s
  ELSE LET code == At(d, s.i)
           opened == IF code = "(" /\ (s.literalOpened = 0 \/ s.prevCode # "\\")
                     THEN s.literalOpened + 1 ELSE s.literalOpened
           closed == IF code = ")" /\ (opened # 0 /\ s.prevCode # "\\")
                     THEN opened - 1 ELSE opened
           next == [s EXCEPT !.i = s.i + 1, !.prevCode = code, !.literalOpened = closed]
       IN IF closed # 0 THEN next
          ELSE IF s.dictBound THEN [next EXCEPT !.dictBound = FALSE]
          ELSE IF code = "<" /\ code = s.prevCode
               THEN [next EXCEPT !.dictOpened = s.dictOpened + 1, !.dictBound = TRUE]
          ELSE IF code = ">" /\ code = s.prevCode
               THEN [next EXCEPT !.dictOpened = s.dictOpened - 1, !.dictBound = TRUE]
          ELSE next

\* n passes of the loop, the second half of them after the first.
RECURSIVE dictSteps(_, _, _)
dictSteps(d, s, n) ==
  IF n <= 0 \/ s.dictOpened = 0 THEN s
  ELSE IF n = 1 THEN dictStep(d, s)
  ELSE dictSteps(d, dictSteps(d, s, n \div 2), n - (n \div 2))

\* The while (dictOpened) loop of getDictBoundsAt: i when the loop is left,
\* HangIndex when it is never left (past the buffer every byte read is
\* undefined and dictOpened does not change any more).
dictScan(d, i, prevCode, dictOpened, dictBound, literalOpened) ==
  LET left(last) == IF last.dictOpened = 0 THEN last.i ELSE HangIndex
  IN left(dictSteps(d, [i |-> i, prevCode |-> prevCode, dictOpened |-> dictOpened,
                        dictBound |-> dictBound, literalOpened |-> literalOpened],
                    maxIndexOf(d) - i + 1))

getDictBoundsAt(d, start0, skip) ==
  LET closed(start, contentStart, i, end, contentEnd) ==
        IF isOutside(d, start) \/ At(d, start) # "<" \/ At(d, start + 1) # "<" THEN Nil
        ELSE IF contentStart = -1 THEN Nil
        ELSE IF i = HangIndex THEN Hang
        ELSE IF contentEnd < contentStart THEN [start |-> start, end |-> end]
        ELSE [start |-> start, end |-> end,
              contentStart |-> contentStart, contentEnd |-> contentEnd]
      scanned(start, contentStart, i) ==
        closed(start, contentStart, i, i - 1, findNonSpaceIndex(d, FALSE, i - 1 - 2))
      opened(start, contentStart) ==
        scanned(start, contentStart, dictScan(d, contentStart, Undef, 1, TRUE, 0))
      at(start) == opened(start, findNonSpaceIndex(d, TRUE, start + 2))
  IN at(IF skip THEN skipEmpty(d, start0) ELSE start0)

\* The while (arraysOpened) loop of getArrayBoundsAt: i when the loop is left,
\* HangIndex when it is never left.
RECURSIVE arrayScan(_, _, _)
arrayScan(d, i, arraysOpened) ==
  IF arraysOpened = 0 THEN i
  ELSE IF i > maxIndexOf(d) THEN HangIndex
  ELSE LET code == At(d, i)
       IN IF code = "[" THEN arrayScan(d, i + 1, arraysOpened + 1)
          ELSE IF code = "]" THEN arrayScan(d, i + 1, arraysOpened - 1)
          ELSE arrayScan(d, i + 1, arraysOpened)

getArrayBoundsAt(d, start0, skip) ==
  LET closed(start, i, arrayEnd) ==
        IF isOutside(d, start) \/ At(d, start) # "[" THEN Nil
        ELSE IF i = HangIndex THEN Hang
        ELSE IF arrayEnd - start < 1 THEN Nil
        ELSE [start |-> start, end |-> arrayEnd]
      scanned(start, i) == closed(start, i, i - 1)
      at(start) == scanned(start, arrayScan(d, start + 1, 1))
  IN at(IF skip THEN skipEmpty(d, start0) ELSE start0)

getHexBounds(d, start0, skip) ==
  LET closed(start, end) ==
        IF isOutside(d, start) \/ At(d, start) # "<" THEN Nil
        ELSE IF end = -1 THEN Nil
        ELSE [start |-> start, end |-> end]
      at(start) == closed(start, findCharIndex(d, ">", TRUE, start + 1))
  IN at(IF skip THEN skipEmpty(d, start0) ELSE start0)

\* The while loop of getLiteralBounds: i when it is left, -1 for return null.
RECURSIVE literalScan(_, _, _, _, _)
literalScan(d, i, code, escaped, opened) ==
  IF ~(opened # 0 \/ code # ")" \/ escaped) THEN i
  ELSE IF i > maxIndexOf(d) THEN -1
  ELSE LET c == At(d, i)
           o == IF escaped THEN opened
                ELSE IF c = "(" THEN opened + 1
                ELSE IF opened # 0 /\ c = ")" THEN opened - 1
                ELSE opened
       IN literalScan(d, i + 1, c, ~escaped /\ c = "\\", o)

\* getLiteralBounds ending the literal at the first ')' after its '('.
getLiteralBoundsToFirstClosing(d, start0, skip) ==
  LET closed(start, end) ==
        IF isOutside(d, start) \/ At(d, start) # "(" THEN Nil
        ELSE IF end = -1 THEN Nil
        ELSE [start |-> start, end |-> end]
      at(start) == closed(start, findCharIndex(d, ")", TRUE, start + 1))
  IN at(IF skip THEN skipEmpty(d, start0) ELSE start0)

getLiteralBounds(d, start0, skip) ==
  LET closed(start, i) ==
        IF isOutside(d, start) \/ At(d, start) # "(" THEN Nil
        ELSE IF i = -1 THEN Nil
        ELSE [start |-> start, end |-> i - 1]
      at(start) == closed(start, literalScan(d, start, Undef, FALSE, 0))
  IN at(IF skip THEN skipEmpty(d, start0) ELSE start0)

\* -------------------------------------------------------- parse methods

\* this._data[from..to], both inclusive, as a string (a sequence of bytes).
bytesOf(d, from, to) == [k \in 1..(to - from + 1) |-> At(d, from + k - 1)]

RECURSIVE countOf(_, _)
countOf(str, set) ==
  IF Len(str) = 0 THEN 0
  ELSE (IF Head(str) \in set THEN 1 ELSE 0) + countOf(Tail(str), set)

RECURSIVE dropLeading(_, _)
dropLeading(str, c) ==
  IF Len(str) > 0 /\ Head(str) = c THEN dropLeading(Tail(str), c) ELSE str

RECURSIVE dropTrailing(_, _)
dropTrailing(str, c) ==
  IF Len(str) > 0 /\ str[Len(str)] = c
  THEN dropTrailing(SubSeq(str, 1, Len(str) - 1), c) ELSE str

\* JavaScript's +numberStr for the strings parseNumberAt builds (never empty):
\* NaN unless the string is an optional '-', then digits with at most one '.'
\* and at least one digit; else the number, as its sign and significant digits.
toNumber(numberStr) ==
  LET neg == Len(numberStr) > 0 /\ Head(numberStr) = "-"
      body == IF neg THEN Tail(numberStr) ELSE numberStr
      dot == IF countOf(body, {"."}) = 0 THEN Len(body) + 1
             ELSE CHOOSE k \in 1..Len(body) :
                    body[k] = "." /\ \A m \in 1..(k - 1) : body[m] # "."
  IN IF countOf(body, {"."}) > 1 \/ countOf(body, digitChars) = 0
     THEN [nan |-> TRUE]
     ELSE [neg |-> neg,
           int |-> dropLeading(SubSeq(body, 1, dot - 1), "0"),
           frac |-> dropTrailing(SubSeq(body, dot + 1, Len(body)), "0")]

\* The while loop of parseNumberAt: the index of the first byte not consumed.
RECURSIVE numberRunEnd(_, _, _)
numberRunEnd(d, i, float) ==
  IF isDigit(At(d, i)) \/ (float /\ At(d, i) = ".")
  THEN numberRunEnd(d, i + 1, float) ELSE i

parseNumberAt(d, start0, float, skip) ==
  LET read(start, first, i, numberStr) ==
        IF isOutside(d, start) \/ ~isRegularChar(first) THEN Nil
        ELSE IF Len(numberStr) = 0 THEN Nil
        ELSE [value |-> toNumber(numberStr), start |-> start, end |-> i - 1]
      run(start, first, prefix, from, i) ==
        read(start, first, i, prefix \o bytesOf(d, from, i - 1))
      signed(start, first, prefix, from) ==
        run(start, first, prefix, from, numberRunEnd(d, from, float))
      at(start, first) ==
        signed(start, first,
               IF first = "-" THEN <<"-">> ELSE IF first = "." THEN <<"0", ".">> ELSE <<>>,
               IF first \in {"-", "."} THEN start + 1 ELSE start)
      from(start) == at(start, At(d, start))
  IN from(IF skip THEN skipEmpty(d, start0) ELSE start0)

\* The while loop of parseNameAt and parseStringAt: the first non-regular index.
RECURSIVE regularRunEnd(_, _)
regularRunEnd(d, i) ==
  IF isRegularChar(At(d, i)) THEN regularRunEnd(d, i + 1) ELSE i

parseNameAt(d, start0, includeSlash, skip) ==
  LET read(start, i, result) ==
        IF isOutside(d, start) \/ At(d, start) # "/" THEN Nil
        ELSE IF Len(result) > 1 THEN [value |-> result, start |-> start, end |-> i - 1]
        ELSE Nil
      run(start, i) ==
        read(start, i, (IF includeSlash THEN <<"/">> ELSE <<>>) \o bytesOf(d, start + 1, i - 1))
      at(start) == run(start, regularRunEnd(d, start + 1))
  IN at(IF skip THEN skipEmpty(d, start0) ELSE start0)

parseBoolAt(d, start0, skip) ==
  LET read(start, isTrue, isFalse) ==
        IF isOutside(d, start) THEN Nil
        ELSE IF isTrue # Nil THEN [value |-> TRUE, start |-> start, end |-> isTrue.end]
        ELSE IF isFalse # Nil THEN [value |-> FALSE, start |-> start, end |-> isFalse.end]
        ELSE Nil
      within(start, maxI) ==
        read(start,
             findSubarrayIndex(d, <<"t", "r", "u", "e">>, TRUE, start, maxI, FALSE),
             findSubarrayIndex(d, <<"f", "a", "l", "s", "e">>, TRUE, start, maxI, FALSE))
      delimited(start, nearestDelimiter) ==
        within(start, IF nearestDelimiter = -1 THEN maxIndexOf(d) ELSE nearestDelimiter)
      at(start) == delimited(start, findDelimiterIndex(d, TRUE, start))
  IN at(IF skip THEN skipEmpty(d, start0) ELSE start0)

\* One pass of the for loop of parseDictPropertyByName over the loop's
\* variables; propNameBounds is Nil until the break, and the variables are left
\* as they are after it and past maxIndex.
propNameStep(d, propName, maxIndex, s) ==
  IF s.propNameBounds # Nil \/ s.i > maxIndex THEN s
  ELSE LET prevCode == s.code
           code == At(d, s.i)
           opened == IF code = "(" /\ (s.literalOpened = 0 \/ prevCode # "\\")
                     THEN s.literalOpened + 1 ELSE s.literalOpened
           closed == IF code = ")" /\ (opened # 0 /\ prevCode # "\\")
                     THEN opened - 1 ELSE opened
           dictOpened == IF s.dictBound THEN s.dictOpened
                         ELSE IF code = "<" /\ code = prevCode THEN s.dictOpened + 1
                         ELSE IF code = ">" /\ code = prevCode THEN s.dictOpened - 1
                         ELSE s.dictOpened
           dictBound == IF s.dictBound THEN FALSE
                        ELSE (code = "<" /\ code = prevCode) \/ (code = ">" /\ code = prevCode)
           j == Len(propName)
           next == [s EXCEPT !.i = s.i + 1, !.code = code, !.literalOpened = closed]
       IN IF closed # 0 THEN next
          ELSE IF \E k \in 0..(j - 1) : At(d, s.i + k) # propName[k + 1]
               THEN [next EXCEPT !.dictOpened = dictOpened, !.dictBound = dictBound]
          ELSE IF dictOpened # 1
               THEN [next EXCEPT !.dictOpened = dictOpened, !.dictBound = dictBound]
          ELSE IF ~isRegularChar(At(d, s.i + j))
               THEN [next EXCEPT !.dictOpened = dictOpened, !.dictBound = dictBound,
                                 !.propNameBounds = [start |-> s.i, end |-> s.i + j - 1]]
          ELSE [next EXCEPT !.dictOpened = dictOpened, !.dictBound = dictBound]

\* n passes of the loop, the second half of them after the first.
RECURSIVE propNameSteps(_, _, _, _, _)
propNameSteps(d, propName, maxIndex, s, n) ==
  IF n <= 0 \/ s.propNameBounds # Nil THEN s
  ELSE IF n = 1 THEN propNameStep(d, propName, maxIndex, s)
  ELSE propNameSteps(d, propName, maxIndex,
                     propNameSteps(d, propName, maxIndex, s, n \div 2), n - (n \div 2))

parseDictPropertyByName(d, propName, bounds) ==
  LET valued(type) == IF type = Nil THEN Nil ELSE type.value
      named(propNameBounds) ==
        IF propNameBounds = Nil THEN Nil
        ELSE valued(parseNameAt(d, propNameBounds.end + 1, TRUE, TRUE))
      scanned(last) == named(last.propNameBounds)
      within(minIndex, maxIndex) ==
        scanned(propNameSteps(d, propName, maxIndex,
                              [i |-> minIndex, code |-> Undef, dictOpened |-> 0,
                               dictBound |-> TRUE, literalOpened |-> 0,
                               propNameBounds |-> Nil],
                              maxIndex - minIndex + 1))
  IN IF Len(propName) = 0 THEN Nil
     ELSE within(Max(Min(bounds.start, maxIndexOf(d)), 0),
                 Max(Min(bounds.end, maxIndexOf(d)), 0))

\* The bounds skipToNextName skips over at i for a value of the given type:
\* Nil when there are none (the loop then advances one byte), Hang when the
\* bounds finder does not return.
skipValueBoundsAt(d, i, value) ==
  CASE value = "DICTIONARY" -> getDictBoundsAt(d, i, FALSE)
    [] value = "ARRAY" -> getArrayBoundsAt(d, i, FALSE)
    [] value = "STRING_LITERAL" -> getLiteralBounds(d, i, FALSE)
    [] value = "STRING_HEX" -> getHexBounds(d, i, FALSE)
    [] value = "NUMBER" -> parseNumberAt(d, i, TRUE, FALSE)
    [] value = "BOOLEAN" -> parseBoolAt(d, i, FALSE)
    [] OTHER -> Nil

\* The while (i <= max) loop of skipToNextName.
RECURSIVE skipToNextNameFrom(_, _, _)
skipToNextNameFrom(d, i, max) ==
  LET skipped(value, skipValueBounds) ==
        IF value = "NAME" THEN i
        ELSE IF skipValueBounds = Hang THEN HangIndex
        ELSE IF skipValueBounds # Nil
             THEN skipToNextNameFrom(d, skipValueBounds.end + 1, max)
        ELSE skipToNextNameFrom(d, i + 1, max)
      typed(value) == skipped(value, skipValueBoundsAt(d, i, value))
  IN IF i > max THEN -1 ELSE typed(getValueTypeAt(d, i, TRUE))

skipToNextName(d, start, max0) ==
  LET max == IF max0 # 0 THEN Min(max0, maxIndexOf(d)) ELSE 0
  IN IF max < start THEN -1 ELSE skipToNextNameFrom(d, start, max)

\* ===================================================================
\* ResourceDict and the classes it is built on.
\*
\* A string is a sequence of bytes.  A Map is a sequence of <<key, value>>
\* pairs in insertion order.  An absent field is Nil.
\* ===================================================================

\* Map.set: the value of an existing key is replaced in place, a new key is
\* appended.
mapSet(m, key, value) ==
  IF \E k \in 1..Len(m) : m[k][1] = key
  THEN [k \in 1..Len(m) |-> IF m[k][1] = key THEN <<key, value>> ELSE m[k]]
  ELSE Append(m, <<key, value>>)

mapKeys(m) == {m[k][1] : k \in 1..Len(m)}

\* Map.get (Nil for undefined).
mapGet(m, key) ==
  IF key \in mapKeys(m) THEN (CHOOSE k \in 1..Len(m) : m[k][1] = key) ELSE 0

mapValue(m, key) == IF key \in mapKeys(m) THEN m[mapGet(m, key)][2] ELSE Nil

digitSeq == <<"0", "1", "2", "3", "4", "5", "6", "7", "8", "9">>

\* The integer a string of digits denotes.
RECURSIVE intOf(_)
intOf(digits) ==
  IF Len(digits) = 0 THEN 0
  ELSE 10 * intOf(SubSeq(digits, 1, Len(digits) - 1))
       + ((CHOOSE k \in 1..10 : digitSeq[k] = digits[Len(digits)]) - 1)

\* The decimal digits of a natural number.
RECURSIVE numberBytes(_)
numberBytes(n) ==
  IF n < 10 THEN <<digitSeq[n + 1]>>
  ELSE numberBytes(n \div 10) \o <<digitSeq[(n % 10) + 1]>>

\* bounds.contentStart || bounds.start and bounds.contentEnd || bounds.end
contentStartOf(bounds) ==
  IF "contentStart" \in DOMAIN bounds THEN bounds.contentStart ELSE bounds.start

contentEndOf(bounds) ==
  IF "contentEnd" \in DOMAIN bounds THEN bounds.contentEnd ELSE bounds.end

\* The while loop of parseNameArrayAt: the names parsed from i on.
RECURSIVE nameArrayFrom(_, _, _, _)
nameArrayFrom(d, i, end, includeSlash) ==
  LET pushed(current) ==
        IF current = Nil THEN <<>>
        ELSE <<current.value>> \o nameArrayFrom(d, current.end + 1, end, includeSlash)
  IN IF ~(i < end) THEN <<>> ELSE pushed(parseNameAt(d, i, includeSlash, TRUE))

parseNameArrayAt(d, start, includeSlash, skip) ==
  LET named(arrayBounds, result) ==
        IF arrayBounds \in {Nil, Hang} THEN arrayBounds
        ELSE [value |-> result, start |-> arrayBounds.start, end |-> arrayBounds.end]
      within(arrayBounds) ==
        named(arrayBounds,
              IF arrayBounds \in {Nil, Hang} THEN <<>>
              ELSE nameArrayFrom(d, arrayBounds.start + 1, arrayBounds.end, includeSlash))
  IN within(getArrayBoundsAt(d, start, skip))

\* ---------------------------------------------------------- ObjectId

\* ObjectId.toArray: "<id> <gen> R".
objectIdToArray(ref) ==
  numberBytes(ref.id) \o <<" ">> \o numberBytes(ref.generation) \o <<" ", "R">>

\* ObjectId.parseRef: the reference 'N G R' at i.
parseRef(d, i) ==
  LET read(id, gen, r) ==
        IF id = Nil \/ gen = Nil THEN Nil
        ELSE IF "nan" \in DOMAIN id.value \/ "nan" \in DOMAIN gen.value THEN Nil
        ELSE IF r = -1 \/ At(d, r) # "R" THEN Nil
        ELSE [value |-> [id |-> intOf(id.value.int), generation |-> intOf(gen.value.int)],
              start |-> id.start, end |-> r]
      numbered(id, gen) == read(id, gen, IF gen = Nil THEN -1 ELSE skipEmpty(d, gen.end + 1))
      identified(id) ==
        numbered(id, IF id = Nil THEN Nil ELSE parseNumberAt(d, id.end + 1, FALSE, TRUE))
  IN identified(parseNumberAt(d, i, FALSE, TRUE))

\* ------------------------------------------------------ ObjectMapDict
\* ids: the Map name -> ObjectId of getObjectIds(); dicts: the Map
\* name -> ParseInfo of getDictParsers().

emptyObjectMap == [ids |-> <<>>, dicts |-> <<>>]

\* ObjectMapDict.parseProps: the loop over the names of the dictionary.
RECURSIVE objectMapFrom(_, _, _, _)

\* One pass of that loop, with the result of parseNameAt: the name's value is
\* a reference, an inline dictionary, or neither (skipped to the next name).
objectMapNamed(d, end, map, parseResult) ==
  LET j == parseResult.end + 1
      name == parseResult.value
      type == getValueTypeAt(d, j, TRUE)
      added(ref, dictBounds, next) ==
        IF ref # Nil
        THEN objectMapFrom(d, ref.end + 1, end,
                           [map EXCEPT !.ids = mapSet(@, name, ref.value)])
        ELSE IF dictBounds = Hang THEN Hang
        ELSE IF dictBounds # Nil
             THEN objectMapFrom(d, dictBounds.end + 1, end,
                    [map EXCEPT !.dicts = mapSet(@, name, [parser |-> d, bounds |-> dictBounds, ref |-> Nil])])
        ELSE objectMapFrom(d, next, end, map)
  IN IF parseResult = Nil THEN map
     ELSE added(IF type = "REF" THEN parseRef(d, j) ELSE Nil,
                IF type = "DICTIONARY" THEN getDictBoundsAt(d, j, TRUE) ELSE Nil,
                skipToNextName(d, j, end - 1))

objectMapFrom(d, i, end, map) ==
  IF i = HangIndex THEN Hang
  ELSE objectMapNamed(d, end, map, parseNameAt(d, i, TRUE, TRUE))

\* ObjectMapDict.parse({parser, bounds}): {value, start, end}.
objectMapParse(d, bounds) ==
  LET parsed(map) ==
        IF map = Hang THEN Hang
        ELSE [value |-> map, start |-> bounds.start, end |-> bounds.end]
  IN parsed(objectMapFrom(d, skipToNextName(d, contentStartOf(bounds), contentEndOf(bounds) - 1),
                          contentEndOf(bounds), emptyObjectMap))

RECURSIVE objectMapIdBytes(_)
objectMapIdBytes(ids) ==
  IF Len(ids) = 0 THEN <<>>
  ELSE Head(ids)[1] \o <<" ">> \o objectIdToArray(Head(ids)[2]) \o objectMapIdBytes(Tail(ids))

RECURSIVE objectMapDictBytes(_)
objectMapDictBytes(dicts) ==
  IF Len(dicts) = 0 THEN <<>>
  ELSE LET info == Head(dicts)[2]
       IN Head(dicts)[1] \o <<" ">> \o bytesOf(info.parser, info.bounds.start, info.bounds.end)
          \o objectMapDictBytes(Tail(dicts))

\* ObjectMapDict.toArray: '<<', each name, a space and its value, '>>'.
objectMapToArray(map) ==
  <<"<", "<">> \o objectMapIdBytes(map.ids) \o objectMapDictBytes(map.dicts) \o <<">", ">">>

\* -------------------------------------------- the typed child objects

\* GraphicsStateDict.parse, FontDict.parse, XFormStream.parse and
\* ImageStream.parse: the object of that class read from the dictionary at
\* parseInfo.bounds, carrying the reference the resolver gave with it; null
\* when the bytes there are no dictionary.
childParse(class, info) ==
  LET read(bounds) ==
        IF bounds \in {Nil, Hang} THEN Nil
        ELSE [value |-> [class |-> class, ref |-> info.ref,
                         source |-> bytesOf(info.parser, bounds.start, bounds.end)]]
  IN read(getDictBoundsAt(info.parser, info.bounds.start, TRUE))

\* GraphicsStateDict.toArray of an object without a reference: its dictionary.
childToArray(obj) == obj.source

\* -------------------------------------------------------- ResourceDict

\* The keys of a resource dictionary, as ResourceDict.parseProps compares and
\* ResourceDict.toArray encodes them.
keyBytes ==
  [ExtGState |-> <<"/", "E", "x", "t", "G", "S", "t", "a", "t", "e">>,
   ColorSpace |-> <<"/", "C", "o", "l", "o", "r", "S", "p", "a", "c", "e">>,
   Pattern |-> <<"/", "P", "a", "t", "t", "e", "r", "n">>,
   Shading |-> <<"/", "S", "h", "a", "d", "i", "n", "g">>,
   XObject |-> <<"/", "X", "O", "b", "j", "e", "c", "t">>,
   Font |-> <<"/", "F", "o", "n", "t">>,
   Properties |-> <<"/", "P", "r", "o", "p", "e", "r", "t", "i", "e", "s">>,
   ProcSet |-> <<"/", "P", "r", "o", "c", "S", "e", "t">>]

\* The keys whose value is an ObjectMapDict.
mapKeys7 == {"ExtGState", "ColorSpace", "Pattern", "Shading", "XObject", "Font", "Properties"}

\* keywordCodes.FORM
keywordFORM == <<"/", "F", "o", "r", "m">>

\* String.prototype.slice(n) of a string of bytes.
slice(str, n) == SubSeq(str, n + 1, Len(str))

\* The exception a method leaves with.
Throw == [throw |-> TRUE]

\* new ResourceDict(): no raw field set, empty resolved maps, not edited.
newResourceDict ==
  [ExtGState |-> Nil, ColorSpace |-> Nil, Pattern |-> Nil, Shading |-> Nil,
   XObject |-> Nil, Font |-> Nil, Properties |-> Nil, ProcSet |-> Nil,
   gsMap |-> <<>>, fontsMap |-> <<>>, xObjectsMap |-> <<>>, edited |-> FALSE]

\* setGraphicsState(name, state)
setGraphicsState(obj, name, state) ==
  [obj EXCEPT !.gsMap = mapSet(@, keyBytes.ExtGState \o name, state), !.edited = TRUE]

\* getGraphicsState(name): the name is looked up as it is given.
getGraphicsState(obj, name) == mapValue(obj.gsMap, name)

\* getGraphicsStates(): the pairs of the map, in the order the map keeps them.
getGraphicsStates(obj) == obj.gsMap

\* getXObject(name)
getXObject(obj, name) == mapValue(obj.xObjectsMap, name)

\* getXObjects()
getXObjects(obj) == obj.xObjectsMap

\* setXObject storing the XObject under the name as it was given, without
\* the '/XObject' prefix.
setXObjectWithoutPrefix(obj, name, xObject) ==
  [obj EXCEPT !.xObjectsMap = mapSet(@, name, xObject), !.edited = TRUE]

\* setXObject(name, xObject)
setXObject(obj, name, xObject) ==
  [obj EXCEPT !.xObjectsMap = mapSet(@, keyBytes.XObject \o name, xObject), !.edited = TRUE]

\* parseInfoGetter(id) of a resolver over a table of objects.
parseInfoGetter(getter, id) ==
  IF id \in DOMAIN getter.objects THEN getter.objects[id] ELSE Nil

\* fillMaps, the loop over this.ExtGState.getObjectIds().
RECURSIVE gsFromObjectIds(_, _, _)
gsFromObjectIds(ids, getter, map) ==
  IF Len(ids) = 0 THEN map
  ELSE LET name == Head(ids)[1]
           objectId == Head(ids)[2]
           streamParseInfo == parseInfoGetter(getter, objectId.id)
           set(stream) ==
             IF stream # Nil
             THEN gsFromObjectIds(Tail(ids), getter,
                                  mapSet(map, keyBytes.ExtGState \o name, stream.value))
             ELSE gsFromObjectIds(Tail(ids), getter, map)
       IN IF streamParseInfo = Nil THEN gsFromObjectIds(Tail(ids), getter, map)
          ELSE set(childParse("GraphicsStateDict", streamParseInfo))

\* fillMaps, the loop over this.ExtGState.getDictParsers().
RECURSIVE gsFromDictParsers(_, _)
gsFromDictParsers(dicts, map) ==
  IF Len(dicts) = 0 THEN map
  ELSE LET name == Head(dicts)[1]
           set(dict) ==
             IF dict # Nil
             THEN gsFromDictParsers(Tail(dicts), mapSet(map, keyBytes.ExtGState \o name, dict.value))
             ELSE gsFromDictParsers(Tail(dicts), map)
       IN set(childParse("GraphicsStateDict", Head(dicts)[2]))

\* The XObject loop of fillMaps leaving the loop at the first id the resolver
\* does not know, instead of going on with the next entry.
RECURSIVE xObjectsFromObjectIdsStoppingAtNil(_, _, _)
xObjectsFromObjectIdsStoppingAtNil(ids, getter, map) ==
  IF Len(ids) = 0 THEN map
  ELSE LET name == Head(ids)[1]
           objectId == Head(ids)[2]
           streamParseInfo == parseInfoGetter(getter, objectId.id)
           isForm == streamParseInfo # Nil
                     /\ findSubarrayIndex(streamParseInfo.parser, keywordFORM, TRUE,
                                          streamParseInfo.bounds.start,
                                          streamParseInfo.bounds.end, FALSE) # Nil
           set(stream) ==
             IF stream # Nil
             THEN xObjectsFromObjectIdsStoppingAtNil(Tail(ids), getter,
                     mapSet(map, keyBytes.XObject \o name, stream.value))
             ELSE xObjectsFromObjectIdsStoppingAtNil(Tail(ids), getter, map)
       IN IF streamParseInfo = Nil THEN map
          ELSE set(IF isForm THEN childParse("XFormStream", streamParseInfo)
                   ELSE childParse("ImageStream", streamParseInfo))

\* fillMaps, the loop over this.XObject.getObjectIds().
RECURSIVE xObjectsFromObjectIds(_, _, _)
xObjectsFromObjectIds(ids, getter, map) ==
  IF Len(ids) = 0 THEN map
  ELSE LET name == Head(ids)[1]
           objectId == Head(ids)[2]
           streamParseInfo == parseInfoGetter(getter, objectId.id)
           isForm == streamParseInfo # Nil
                     /\ findSubarrayIndex(streamParseInfo.parser, keywordFORM, TRUE,
                                          streamParseInfo.bounds.start,
                                          streamParseInfo.bounds.end, FALSE) # Nil
           set(stream) ==
             IF stream # Nil
             THEN xObjectsFromObjectIds(Tail(ids), getter,
                                        mapSet(map, keyBytes.XObject \o name, stream.value))
             ELSE xObjectsFromObjectIds(Tail(ids), getter, map)
       IN IF streamParseInfo = Nil THEN xObjectsFromObjectIds(Tail(ids), getter, map)
          ELSE set(IF isForm THEN childParse("XFormStream", streamParseInfo)
                   ELSE childParse("ImageStream", streamParseInfo))

\* fillMaps, the loop over this.Font.getObjectIds().
RECURSIVE fontsFromObjectIds(_, _, _)
fontsFromObjectIds(ids, getter, map) ==
  IF Len(ids) = 0 THEN map
  ELSE LET name == Head(ids)[1]
           objectId == Head(ids)[2]
           dictParseInfo == parseInfoGetter(getter, objectId.id)
           set(dict) ==
             IF dict # Nil
             THEN fontsFromObjectIds(Tail(ids), getter,
                                     mapSet(map, keyBytes.Font \o name, dict.value))
             ELSE fontsFromObjectIds(Tail(ids), getter, map)
       IN IF dictParseInfo = Nil THEN fontsFromObjectIds(Tail(ids), getter, map)
          ELSE set(childParse("FontDict", dictParseInfo))

\* fillMaps: the three resolved maps are cleared and filled again from the raw
\* fields.
fillMaps(obj, getter) ==
  [obj EXCEPT
     !.gsMap = IF obj.ExtGState # Nil
               THEN gsFromDictParsers(obj.ExtGState.dicts,
                                      gsFromObjectIds(obj.ExtGState.ids, getter, <<>>))
               ELSE <<>>,
     !.xObjectsMap = IF obj.XObject # Nil
                     THEN xObjectsFromObjectIds(obj.XObject.ids, getter, <<>>)
                     ELSE <<>>,
     !.fontsMap = IF obj.Font # Nil
                  THEN fontsFromObjectIds(obj.Font.ids, getter, <<>>)
                  ELSE <<>>]

\* PdfDict.parseNameArrayProp: the parsed names and the index after the array,
\* or the exception when there is no array of names.
parseNameArrayProp(d, index) ==
  LET set(parsed) ==
        IF parsed = Hang THEN Hang
        ELSE IF parsed = Nil THEN Throw
        ELSE [value |-> [names |-> parsed.value], next |-> parsed.end + 1]
  IN set(parseNameArrayAt(d, index, TRUE, TRUE))

\* The while (true) loop of ResourceDict.parseProps.
RECURSIVE parsePropsFrom(_, _, _, _)

\* The cases of the seven keys whose value is a map, with the bounds
\* getDictBoundsAt gave for the value.
parsePropsMap(d, end, obj, name, mapBounds) ==
  LET key == CHOOSE key \in mapKeys7 : slice(keyBytes[key], 1) = slice(name, 1)
      set(map) ==
        IF mapBounds = Hang \/ map = Hang THEN Hang
        ELSE IF mapBounds # Nil /\ map # Nil
             THEN parsePropsFrom(d, mapBounds.end + 1, end, [obj EXCEPT ![key] = map.value])
        ELSE Throw
  IN set(IF mapBounds \in {Nil, Hang} THEN Nil ELSE objectMapParse(d, mapBounds))

\* One pass of the loop, with the result of parseNameAt: the switch on the name.
parsePropsNamed(d, end, obj, parseResult) ==
  LET j == parseResult.end + 1
      name == parseResult.value
      set(prop) ==
        IF prop \in {Hang, Throw} THEN prop
        ELSE parsePropsFrom(d, prop.next, end, [obj EXCEPT !.ProcSet = prop.value])
  IN IF parseResult = Nil THEN obj
     ELSE IF \E key \in mapKeys7 : keyBytes[key] = name
          THEN parsePropsMap(d, end, obj, name, getDictBoundsAt(d, j, TRUE))
     ELSE IF name = keyBytes.ProcSet THEN set(parseNameArrayProp(d, j))
     ELSE parsePropsFrom(d, skipToNextName(d, j, end - 1), end, obj)

parsePropsFrom(d, i, end, obj) ==
  IF i = HangIndex THEN Hang
  ELSE parsePropsNamed(d, end, obj, parseNameAt(d, i, TRUE, TRUE))

\* ResourceDict.parseProps on a new object: the object, the exception, or Hang.
parseProps(parseInfo) ==
  LET start == contentStartOf(parseInfo.bounds)
      end == contentEndOf(parseInfo.bounds)
      filled(obj) ==
        IF obj \in {Hang, Throw} THEN obj
        ELSE IF parseInfo.parseInfoGetter.present
             THEN fillMaps(obj, parseInfo.parseInfoGetter)
        ELSE obj
  IN filled(parsePropsFrom(parseInfo.parser,
                           skipToNextName(parseInfo.parser, start, end - 1),
                           end, newResourceDict))

\* ResourceDict.parse: {value, start, end}, or null for a caught exception.
parse(parseInfo) ==
  LET caught(pdfObject) ==
        IF pdfObject = Hang THEN Hang
        ELSE IF pdfObject = Throw THEN Nil
        ELSE [value |-> pdfObject, start |-> parseInfo.bounds.start, end |-> parseInfo.bounds.end]
  IN caught(parseProps(parseInfo))

\* PdfDict.toArray of a dictionary with no property of its own: '<<>>'.
superToArray == <<"<", "<", ">", ">">>

\* toArray, the loop over this._gsMap.
RECURSIVE gsMapBytes(_)
gsMapBytes(map) ==
  IF Len(map) = 0 THEN <<>>
  ELSE LET name == Head(map)[1]
           gsDict == Head(map)[2]
       IN slice(name, 10) \o <<" ">>
          \o (IF gsDict.ref # Nil THEN objectIdToArray(gsDict.ref) ELSE childToArray(gsDict))
          \o gsMapBytes(Tail(map))

\* The XObject loop of toArray removing ten bytes from the key, the length of
\* the '/ExtGState' prefix, instead of the eight of '/XObject'.
RECURSIVE xObjectsMapBytesSlicingTen(_)
xObjectsMapBytesSlicingTen(map) ==
  IF Len(map) = 0 THEN <<>>
  ELSE LET name == Head(map)[1]
           ref == Head(map)[2].ref
       IN slice(name, 10) \o <<" ">> \o objectIdToArray(ref) \o xObjectsMapBytesSlicingTen(Tail(map))

\* toArray, the loop over this._xObjectsMap (no entry without a reference).
RECURSIVE xObjectsMapBytes(_)
xObjectsMapBytes(map) ==
  IF Len(map) = 0 THEN <<>>
  ELSE LET name == Head(map)[1]
           ref == Head(map)[2].ref
       IN slice(name, 8) \o <<" ">> \o objectIdToArray(ref) \o xObjectsMapBytes(Tail(map))

\* toArray, the names of this.ProcSet.
RECURSIVE procSetBytes(_)
procSetBytes(names) ==
  IF Len(names) = 0 THEN <<>>
  ELSE <<" ">> \o Head(names) \o procSetBytes(Tail(names))

\* ResourceDict.toArray with the keys in the order the class declares its
\* fields: XObject after Shading instead of after ExtGState.
toArrayInDeclarationOrder(obj) ==
  LET superBytes == superToArray
      bytes ==
        (IF Len(obj.gsMap) > 0
         THEN keyBytes.ExtGState \o <<" ", "<", "<">> \o gsMapBytes(obj.gsMap) \o <<">", ">">>
         ELSE <<>>)
        \o (IF obj.ColorSpace # Nil
            THEN keyBytes.ColorSpace \o <<" ">> \o objectMapToArray(obj.ColorSpace) ELSE <<>>)
        \o (IF obj.Pattern # Nil
            THEN keyBytes.Pattern \o <<" ">> \o objectMapToArray(obj.Pattern) ELSE <<>>)
        \o (IF obj.Shading # Nil
            THEN keyBytes.Shading \o <<" ">> \o objectMapToArray(obj.Shading) ELSE <<>>)
        \o (IF Len(obj.xObjectsMap) > 0
            THEN keyBytes.XObject \o <<" ", "<", "<">> \o xObjectsMapBytes(obj.xObjectsMap)
                 \o <<">", ">">>
            ELSE <<>>)
        \o (IF obj.Font # Nil
            THEN keyBytes.Font \o <<" ">> \o objectMapToArray(obj.Font) ELSE <<>>)
        \o (IF obj.Properties # Nil
            THEN keyBytes.Properties \o <<" ">> \o objectMapToArray(obj.Properties) ELSE <<>>)
        \o (IF obj.ProcSet # Nil
            THEN keyBytes.ProcSet \o <<" ", "[">> \o procSetBytes(obj.ProcSet.names) \o <<"]">>
            ELSE <<>>)
  IN IF \E k \in 1..Len(obj.xObjectsMap) : obj.xObjectsMap[k][2].ref = Nil
     THEN Throw
     ELSE [bytes |-> SubSeq(superBytes, 1, 2) \o bytes \o slice(superBytes, 2)]

\* ResourceDict.toArray returning, for an XObject without a reference, the
\* bytes written before the XObject loop instead of leaving with the exception.
toArrayReturningBytesWritten(obj) ==
  LET superBytes == superToArray
      bytes ==
        (IF Len(obj.gsMap) > 0
         THEN keyBytes.ExtGState \o <<" ", "<", "<">> \o gsMapBytes(obj.gsMap) \o <<">", ">">>
         ELSE <<>>)
        \o (IF Len(obj.xObjectsMap) > 0
            THEN keyBytes.XObject \o <<" ", "<", "<">> \o xObjectsMapBytes(obj.xObjectsMap)
                 \o <<">", ">">>
            ELSE <<>>)
        \o (IF obj.ColorSpace # Nil
            THEN keyBytes.ColorSpace \o <<" ">> \o objectMapToArray(obj.ColorSpace) ELSE <<>>)
        \o (IF obj.Pattern # Nil
            THEN keyBytes.Pattern \o <<" ">> \o objectMapToArray(obj.Pattern) ELSE <<>>)
        \o (IF obj.Shading # Nil
            THEN keyBytes.Shading \o <<" ">> \o objectMapToArray(obj.Shading) ELSE <<>>)
        \o (IF obj.Font # Nil
            THEN keyBytes.Font \o <<" ">> \o objectMapToArray(obj.Font) ELSE <<>>)
        \o (IF obj.Properties # Nil
            THEN keyBytes.Properties \o <<" ">> \o objectMapToArray(obj.Properties) ELSE <<>>)
        \o (IF obj.ProcSet # Nil
            THEN keyBytes.ProcSet \o <<" ", "[">> \o procSetBytes(obj.ProcSet.names) \o <<"]">>
            ELSE <<>>)
  IN IF \E k \in 1..Len(obj.xObjectsMap) : obj.xObjectsMap[k][2].ref = Nil
     THEN [bytes |-> SubSeq(superBytes, 1, 2)
                     \o (IF Len(obj.gsMap) > 0
                         THEN keyBytes.ExtGState \o <<" ", "<", "<">> \o gsMapBytes(obj.gsMap)
                              \o <<">", ">">>
                         ELSE <<>>)]
     ELSE [bytes |-> SubSeq(superBytes, 1, 2) \o bytes \o slice(superBytes, 2)]

\* ResourceDict.toArray: the bytes, or the exception for an XObject without a
\* reference.
toArray(obj) ==
  LET superBytes == superToArray
      bytes ==
        (IF Len(obj.gsMap) > 0
         THEN keyBytes.ExtGState \o <<" ", "<", "<">> \o gsMapBytes(obj.gsMap) \o <<">", ">">>
         ELSE <<>>)
        \o (IF Len(obj.xObjectsMap) > 0
            THEN keyBytes.XObject \o <<" ", "<", "<">> \o xObjectsMapBytes(obj.xObjectsMap)
                 \o <<">", ">">>
            ELSE <<>>)
        \o (IF obj.ColorSpace # Nil
            THEN keyBytes.ColorSpace \o <<" ">> \o objectMapToArray(obj.ColorSpace) ELSE <<>>)
        \o (IF obj.Pattern # Nil
            THEN keyBytes.Pattern \o <<" ">> \o objectMapToArray(obj.Pattern) ELSE <<>>)
        \o (IF obj.Shading # Nil
            THEN keyBytes.Shading \o <<" ">> \o objectMapToArray(obj.Shading) ELSE <<>>)
        \o (IF obj.Font # Nil
            THEN keyBytes.Font \o <<" ">> \o objectMapToArray(obj.Font) ELSE <<>>)
        \o (IF obj.Properties # Nil
            THEN keyBytes.Properties \o <<" ">> \o objectMapToArray(obj.Properties) ELSE <<>>)
        \o (IF obj.ProcSet # Nil
            THEN keyBytes.ProcSet \o <<" ", "[">> \o procSetBytes(obj.ProcSet.names) \o <<"]">>
            ELSE <<>>)
  IN IF \E k \in 1..Len(obj.xObjectsMap) : obj.xObjectsMap[k][2].ref = Nil
     THEN Throw
     ELSE [bytes |-> SubSeq(superBytes, 1, 2) \o bytes \o slice(superBytes, 2)]

\* ===================================================================
\* The parser as a state machine: data is the buffer the parser was
\* constructed over (never empty: the constructor throws on empty data),
\* call is the method call made on it, with its arguments and its result
\* (a behaviour constructs a parser and makes one call; the buffer is immutable,
\* so calls do not influence one another).
\* ===================================================================

NoCall == [op |-> "none"]

\* No StampAnnotator is involved.
NoAnnotator == annotator = Nil

\* No ResourceDict is involved.
NoResource == src = Nil /\ resolver = Nil /\ rd = Nil /\ out = Nil /\ rd2 = Nil /\ NoAnnotator

\* Every buffer of 1..n bytes over an alphabet.
Buffers(alphabet, n) == UNION {[1..k -> alphabet] : k \in 1..n}

\* ------------------------------------------------ findSubarrayIndex

MaxFindLen == 3
MaxSubLen == 2

\* A regular byte, a white-space byte and a delimiter byte.
FindBytes == {"a", " ", "/"}

InitFind ==
  /\ NoResource
  /\ data \in Buffers(FindBytes, MaxFindLen)
  /\ call = NoCall
  /\ b = Nil

FindSubarrayIndex ==
  /\ call = NoCall
  /\ \E sub \in Buffers(FindBytes, MaxSubLen), direction \in BOOLEAN, closedOnly \in BOOLEAN,
        minIndex \in -1..Len(data), maxIndex \in -1..Len(data) :
       call' = [op |-> "findSubarrayIndex", sub |-> sub, direction |-> direction,
                  minIndex |-> minIndex, maxIndex |-> maxIndex, closedOnly |-> closedOnly,
                  res |-> findSubarrayIndex(data, sub, direction, minIndex, maxIndex, closedOnly)]
  /\ UNCHANGED <<data, b, resVars, annotator>>

NextFind == FindSubarrayIndex

SpecFind == InitFind /\ [][NextFind]_vars

\* -------------------------------------------------------- skipEmpty

MaxSkipLen == 4

\* A comment start, a line feed, a carriage return, a space and a regular byte.
SkipBytes == {"%", "\n", "\r", " ", "x"}

InitSkip ==
  /\ NoResource
  /\ data \in Buffers(SkipBytes, MaxSkipLen)
  /\ call = NoCall
  /\ b = Nil

SkipEmpty ==
  /\ call = NoCall
  /\ \E start \in -1..Len(data) :
       call' = [op |-> "skipEmpty", start |-> start, res |-> skipEmpty(data, start)]
  /\ UNCHANGED <<data, b, resVars, annotator>>

\* skipEmpty applied to the index the last skipEmpty returned.
SkipEmptyAgain ==
  /\ call.op = "skipEmpty"
  /\ call' = [op |-> "skipEmptyAgain", start |-> call.start, first |-> call.res,
              res |-> skipEmpty(data, call.res)]
  /\ UNCHANGED <<data, b, resVars, annotator>>

NextSkip == SkipEmpty \/ SkipEmptyAgain

SpecSkip == InitSkip /\ [][NextSkip]_vars

\* -------------------------------------------------- getArrayBoundsAt

MaxArrayLen == 4

ArrayBytes == {"[", "]", "x", " "}

InitArray ==
  /\ NoResource
  /\ data \in Buffers(ArrayBytes, MaxArrayLen)
  /\ call = NoCall
  /\ b = Nil

GetArrayBoundsAt ==
  /\ call = NoCall
  /\ \E start \in 0..maxIndexOf(data), skip \in BOOLEAN :
       call' = [op |-> "getArrayBoundsAt", start |-> start, skip |-> skip,
                  res |-> getArrayBoundsAt(data, start, skip)]
  /\ UNCHANGED <<data, b, resVars, annotator>>

NextArray == GetArrayBoundsAt

SpecArray == InitArray /\ [][NextArray]_vars

\* ----------------------------------------------------- parseNumberAt

MaxNumberLen == 3

NumberBytes == {"-", ".", "0", "5", "a", " "}

\* The inputs the number parser is said to accept and to reject.
AcceptedNumbers ==
  { <<"0">>, <<"-", "0">>, <<"0", ".">>, <<".", "0">>, <<"-", ".", "5">>,
    <<"1", "2", "3", ".", "4", "5", "6">> }

RejectedNumbers == { <<".">>, <<"-">>, <<"-", ".">>, <<"a", "b", "c">> }

InitNumber ==
  /\ NoResource
  /\ data \in AcceptedNumbers \cup RejectedNumbers \cup Buffers(NumberBytes, MaxNumberLen)
  /\ call = NoCall
  /\ b = Nil

ParseNumberAt ==
  /\ call = NoCall
  /\ \E start \in 0..maxIndexOf(data), float \in BOOLEAN, skip \in BOOLEAN :
       call' = [op |-> "parseNumberAt", start |-> start, float |-> float, skip |-> skip,
                  res |-> parseNumberAt(data, start, float, skip)]
  /\ UNCHANGED <<data, b, resVars, annotator>>

NextNumber == ParseNumberAt

SpecNumber == InitNumber /\ [][NextNumber]_vars

\* ---------------------------------------------------- getValueTypeAt

MaxTypeLen == 5

\* Two digits, a space, the reference keyword and a delimiter.
TypeBytes == {"1", "0", " ", "R", "/"}

InitType ==
  /\ NoResource
  /\ data \in {<<"1", "2", " ", "0", " ", "R">>, <<"5", " ", "0">>}
                \cup Buffers(TypeBytes, MaxTypeLen)
  /\ call = NoCall
  /\ b = Nil

GetValueTypeAt ==
  /\ call = NoCall
  /\ \E start \in 0..maxIndexOf(data), skip \in BOOLEAN :
       call' = [op |-> "getValueTypeAt", start |-> start, skip |-> skip,
                  res |-> getValueTypeAt(data, start, skip)]
  /\ UNCHANGED <<data, b, resVars, annotator>>

NextType == GetValueTypeAt

SpecType == InitType /\ [][NextType]_vars

\* --------------------------------------------------- getDictBoundsAt
\* The buffers hold a well-formed PDF dictionary, built from its grammar,
\* between a prefix and a suffix; b records where it lies: b.start and b.end
\* are the indices of its first '<' and of the second '>' of its closing '>>',
\* b.literal the parts of its string literal when it was built around one.

MaxEntries == 2
MaxLiteralParts == 3

DictKey == <<"/", "A">>

\* A name, a number, a reference, a hex string, an empty hex string, an array
\* and a string literal.
PlainValues ==
  { <<"/", "N">>, <<"1">>, <<"1", " ", "0", " ", "R">>, <<"<", "A", "B", ">">>, <<"<", ">">>,
    <<"[", "1", "]">>, <<"(", "x", ")">> }

\* What a string literal is made of: a plain byte, dictionary delimiters, an
\* escaped parenthesis of either kind, a balanced pair of parentheses, and an
\* escaped backslash.
LiteralParts ==
  { <<"x">>, <<">", ">">>, <<"<", "<">>, <<"\\", "(">>, <<"\\", ")">>, <<"(", ")">>,
    <<"\\", "\\">> }

RECURSIVE concat(_)
concat(parts) == IF Len(parts) = 0 THEN <<>> ELSE Head(parts) \o concat(Tail(parts))

LiteralOf(parts) == <<"(">> \o concat(parts) \o <<")">>

\* One entry: the key, white space (always before a value that starts with a
\* regular byte, else only when spaced), the value.
EntryBytes(spaced, value) ==
  DictKey \o (IF spaced \/ isRegularChar(Head(value)) THEN <<" ">> ELSE <<>>) \o value

RECURSIVE EntriesBytes(_, _)
EntriesBytes(spaced, values) ==
  IF Len(values) = 0 THEN <<>>
  ELSE EntryBytes(spaced, Head(values)) \o (IF spaced THEN <<" ">> ELSE <<>>)
       \o EntriesBytes(spaced, Tail(values))

DictBytes(spaced, values) ==
  <<"<", "<">> \o (IF spaced THEN <<" ">> ELSE <<>>) \o EntriesBytes(spaced, values)
  \o <<">", ">">>

\* Every dictionary of at most n entries over a set of values, spaced or not.
DictsOver(values, n) ==
  { DictBytes(spaced, vs) : spaced \in BOOLEAN, vs \in UNION {[1..k -> values] : k \in 0..n} }

\* Dictionaries of plain values, and dictionaries that nest one of those.
FlatDicts == DictsOver(PlainValues, MaxEntries)

NestedDicts == DictsOver(PlainValues \cup DictsOver(PlainValues, 1), MaxEntries)

DictPrefixes == { <<>>, <<"x", " ">>, <<"<", "A", ">">> }

DictSuffixes == { <<>>, <<" ">>, <<">", ">">>, <<"/", "B">> }

\* The dictionary '<< /Length 42 /Type /Catalog >>'.
CatalogDict ==
  <<"<", "<", " ", "/", "L", "e", "n", "g", "t", "h", " ", "4", "2", " ",
    "/", "T", "y", "p", "e", " ", "/", "C", "a", "t", "a", "l", "o", "g", " ", ">", ">">>

InitDict ==
  /\ NoResource
  /\ \/ \E prefix \in DictPrefixes, suffix \in DictSuffixes :
          \/ \E dict \in FlatDicts \cup NestedDicts :
               /\ data = prefix \o dict \o suffix
               /\ b = [start |-> Len(prefix), end |-> Len(prefix) + Len(dict) - 1,
                       literal |-> <<>>]
          \/ \E spaced \in BOOLEAN,
                parts \in UNION {[1..k -> LiteralParts] : k \in 1..MaxLiteralParts} :
               LET dict == DictBytes(spaced, <<LiteralOf(parts)>>)
               IN /\ data = prefix \o dict \o suffix
                  /\ b = [start |-> Len(prefix), end |-> Len(prefix) + Len(dict) - 1,
                          literal |-> parts]
     \/ /\ data = CatalogDict
        /\ b = [start |-> 0, end |-> Len(CatalogDict) - 1, literal |-> <<>>]
  /\ call = NoCall

GetDictBoundsAt ==
  /\ call = NoCall
  /\ \E skip \in BOOLEAN :
       call' = [op |-> "getDictBoundsAt", start |-> b.start, skip |-> skip,
                res |-> getDictBoundsAt(data, b.start, skip)]
  /\ UNCHANGED <<data, b, resVars, annotator>>

NextDict == GetDictBoundsAt

SpecDict == InitDict /\ [][NextDict]_vars

\* ---------------------------------------------------- skipToNextName
\* The buffers are built from tokens; b records the tokens the buffer is the
\* concatenation of.

MaxNameTokens == 2

\* A name, white space, and the values that may hold a name inside them: a
\* dictionary, an array, a string literal, a hex string and a comment.
NameToken == <<"/", "A">>

ContainerTokens ==
  { <<"<", "<", "/", "A", ">", ">">>, <<"[", "/", "A", "]">>, <<"(", "/", "A", ")">>,
    <<"<", "/", "A", ">">>, <<"%", "/", "A", "\n">> }

\* A dictionary and an array that are opened and not closed.
OpenTokens == { <<"<", "<">>, <<"[">> }

NameTokens == {NameToken, <<" ">>} \cup ContainerTokens \cup OpenTokens

InitName ==
  /\ NoResource
  /\ b \in UNION {[1..k -> NameTokens] : k \in 1..MaxNameTokens}
  /\ data = concat(b)
  /\ call = NoCall

SkipToNextName ==
  /\ call = NoCall
  /\ \E start \in 0..maxIndexOf(data), max \in 0..Len(data) :
       call' = [op |-> "skipToNextName", start |-> start, max |-> max,
                res |-> skipToNextName(data, start, max)]
  /\ UNCHANGED <<data, b, resVars, annotator>>

\* getDictBoundsAt at any index of the buffer.
GetDictBoundsAtIndex ==
  /\ call = NoCall
  /\ \E start \in 0..maxIndexOf(data), skip \in BOOLEAN :
       call' = [op |-> "getDictBoundsAt", start |-> start, skip |-> skip,
                res |-> getDictBoundsAt(data, start, skip)]
  /\ UNCHANGED <<data, b, resVars, annotator>>

NextName == SkipToNextName \/ GetDictBoundsAtIndex

SpecName == InitName /\ [][NextName]_vars

\* -------------------------------------------------- getLiteralBounds

MaxLiteralLen == 5

\* The two parentheses, the backslash and a plain byte.
LiteralBytes == {"(", ")", "\\", "x"}

InitLiteral ==
  /\ NoResource
  /\ data \in Buffers(LiteralBytes, MaxLiteralLen)
  /\ call = NoCall
  /\ b = Nil

GetLiteralBounds ==
  /\ call = NoCall
  /\ \E start \in 0..maxIndexOf(data), skip \in BOOLEAN :
       call' = [op |-> "getLiteralBounds", start |-> start, skip |-> skip,
                res |-> getLiteralBounds(data, start, skip)]
  /\ UNCHANGED <<data, b, resVars, annotator>>

NextLiteral == GetLiteralBounds

SpecLiteral == InitLiteral /\ [][NextLiteral]_vars

\* ------------------------------------------------------- parseBoolAt
\* The buffers are built from tokens; b records the tokens.

MaxBoolTokens == 3

\* The two keywords, a regular byte, a space and a delimiter.
BoolTokens ==
  { <<"t", "r", "u", "e">>, <<"f", "a", "l", "s", "e">>, <<"x">>, <<" ">>, <<"/">> }

InitBool ==
  /\ NoResource
  /\ b \in UNION {[1..k -> BoolTokens] : k \in 1..MaxBoolTokens}
  /\ data = concat(b)
  /\ call = NoCall

ParseBoolAt ==
  /\ call = NoCall
  /\ \E start \in 0..maxIndexOf(data), skip \in BOOLEAN :
       call' = [op |-> "parseBoolAt", start |-> start, skip |-> skip,
                res |-> parseBoolAt(data, start, skip)]
  /\ UNCHANGED <<data, b, resVars, annotator>>

NextBool == ParseBoolAt

SpecBool == InitBool /\ [][NextBool]_vars

\* ------------------------------------------- parseDictPropertyByName
\* The buffers hold a dictionary built from entries; b records the entries.

MaxPropEntries == 3

\* The property name that is looked up.
PropName == <<"/", "T", "y", "p", "e">>

\* Entries of the dictionary itself with the property name as their key.
OwnEntries ==
  { <<"/", "T", "y", "p", "e", "/", "X">>, <<"/", "T", "y", "p", "e", " ", "/", "Y">> }

\* The property name inside a nested dictionary, inside a string literal,
\* inside a string literal after an escaped backslash and a balanced pair of
\* parentheses, and as the beginning of a longer name.
NestedEntry ==
  <<"/", "B", "<", "<", "/", "T", "y", "p", "e", "/", "N", ">", ">">>

LiteralEntries ==
  { <<"/", "A", "(", "/", "T", "y", "p", "e", "/", "L", ")">>,
    <<"/", "A", "(", "\\", "\\", "(", ")", "/", "T", "y", "p", "e", "/", "L", ")">> }

LongerNameEntry == <<"/", "T", "y", "p", "e", "X", "/", "P">>

\* An entry without the property name.
PlainEntry == <<"/", "C", " ", "1">>

PropEntries ==
  OwnEntries \cup {NestedEntry, LongerNameEntry, PlainEntry} \cup LiteralEntries

InitProp ==
  /\ NoResource
  /\ b \in UNION {[1..k -> PropEntries] : k \in 0..MaxPropEntries}
  /\ data = <<"<", "<">> \o concat(b) \o <<">", ">">>
  /\ call = NoCall

\* The lookup over the bounds of the dictionary.
ParseDictPropertyByName ==
  /\ call = NoCall
  /\ call' = [op |-> "parseDictPropertyByName", propName |-> PropName,
              bounds |-> [start |-> 0, end |-> maxIndexOf(data)],
              res |-> parseDictPropertyByName(data, PropName,
                                              [start |-> 0, end |-> maxIndexOf(data)])]
  /\ UNCHANGED <<data, b, resVars, annotator>>

NextProp == ParseDictPropertyByName

SpecProp == InitProp /\ [][NextProp]_vars

\* ------------------------------------ bounds of composite structures
\* The buffers are built from tokens; b records the tokens.

MaxBoundsTokens == 3

\* The keywords that open and close an indirect object and a cross-reference
\* table, three dictionaries (empty, empty with a space, with content) and a
\* number.
BoundsTokens ==
  { <<"o", "b", "j", " ">>, <<" ", "e", "n", "d", "o", "b", "j">>,
    <<"x", "r", "e", "f", "\n">>, <<"t", "r", "a", "i", "l", "e", "r">>,
    <<"<", "<", ">", ">">>, <<"<", "<", " ", ">", ">">>, <<"<", "<", "1", ">", ">">>,
    <<"1">> }

InitBounds ==
  /\ NoResource
  /\ b \in UNION {[1..k -> BoundsTokens] : k \in 1..MaxBoundsTokens}
  /\ data = concat(b)
  /\ call = NoCall

\* The indices at which a token of a token list begins.
tokenStarts(tokens) == {Len(concat(SubSeq(tokens, 1, k - 1))) : k \in 1..Len(tokens)}

GetIndirectObjectBoundsAt ==
  /\ call = NoCall
  /\ \E start \in tokenStarts(b), skip \in BOOLEAN :
       call' = [op |-> "getIndirectObjectBoundsAt", start |-> start, skip |-> skip,
                res |-> getIndirectObjectBoundsAt(data, start, skip)]
  /\ UNCHANGED <<data, b, resVars, annotator>>

GetXrefTableBoundsAt ==
  /\ call = NoCall
  /\ \E start \in tokenStarts(b), skip \in BOOLEAN :
       call' = [op |-> "getXrefTableBoundsAt", start |-> start, skip |-> skip,
                res |-> getXrefTableBoundsAt(data, start, skip)]
  /\ UNCHANGED <<data, b, resVars, annotator>>

NextBounds == GetIndirectObjectBoundsAt \/ GetXrefTableBoundsAt \/ GetDictBoundsAtIndex

SpecBounds == InitBounds /\ [][NextBounds]_vars

\* -------------------------------------------------- findNewLineIndex

MaxLineLen == 4

\* A carriage return, a line feed and a regular byte.
LineBytes == {"\r", "\n", "x"}

InitLine ==
  /\ NoResource
  /\ data \in Buffers(LineBytes, MaxLineLen)
  /\ call = NoCall
  /\ b = Nil

FindNewLineIndex ==
  /\ call = NoCall
  /\ \E direction \in BOOLEAN, start \in 0..maxIndexOf(data) :
       call' = [op |-> "findNewLineIndex", direction |-> direction, start |-> start,
                res |-> findNewLineIndex(data, direction, start)]
  /\ UNCHANGED <<data, b, resVars, annotator>>

NextLine == FindNewLineIndex

SpecLine == InitLine /\ [][NextLine]_vars

\* ----------------------------------------------------- ResourceDict
\* A resource dictionary is parsed with a resolver, graphics states and
\* XObjects may be set on it, and it is serialised; the bytes of a dictionary
\* nothing was set on are parsed again with the same resolver.

\* The entries of a source resource dictionary, over all its keys.
MaxResEntries == 2

\* The object ids the sub-maps refer to.
ObjIds == {1, 2}

ResNames == { <<"/", "A">>, <<"/", "B">> }

\* An inline graphics state dictionary.
InlineGs == <<"<", "<", "/", "C", "A", " ", "1", ">", ">">>

\* What the resolver knows an object as: a form, an image, bytes that are no
\* dictionary, or nothing.
FormObject == <<"<", "<", "/", "S", "u", "b", "t", "y", "p", "e", "/", "F", "o", "r", "m", ">", ">">>
ImageObject == <<"<", "<", "/", "S", "u", "b", "t", "y", "p", "e", "/", "I", "m", "a", "g", "e", ">", ">">>
BrokenObject == <<"x">>

objectInfo(id, bytes) ==
  [parser |-> bytes, bounds |-> [start |-> 0, end |-> Len(bytes) - 1],
   ref |-> [id |-> id, generation |-> 0]]

\* The resolver over a choice of what each object is.
resolverOver(choice) ==
  [present |-> TRUE,
   objects |-> [id \in ObjIds |->
                  CASE choice[id] = "form" -> objectInfo(id, FormObject)
                    [] choice[id] = "image" -> objectInfo(id, ImageObject)
                    [] choice[id] = "broken" -> objectInfo(id, BrokenObject)
                    [] OTHER -> Nil]]

\* parseInfo.parseInfoGetter: absent, or a table of objects in which each
\* object is missing, a form, an image or broken.
Resolvers ==
  {[present |-> FALSE, objects |-> [id \in ObjIds |-> Nil]]}
  \cup {resolverOver(choice) :
          choice \in {<<"nil", "nil">>, <<"form", "image">>, <<"nil", "form">>,
                      <<"image", "nil">>, <<"broken", "image">>}}

\* One entry of a source resource dictionary: a name with a reference or with
\* an inline dictionary in a sub-map, a sub-map as such, a /ProcSet array, or
\* a key the class does not know.
refEntry(key, name, id) == [key |-> key, kind |-> "ref", name |-> name, id |-> id]

otherEntry(key, kind) == [key |-> key, kind |-> kind, name |-> <<>>, id |-> 0]

ResEntries ==
  { refEntry("ExtGState", <<"/", "A">>, 1), refEntry("ExtGState", <<"/", "B">>, 2),
    refEntry("XObject", <<"/", "A">>, 1), refEntry("XObject", <<"/", "B">>, 2),
    refEntry("XObject", <<"/", "A">>, 2),
    refEntry("Font", <<"/", "A">>, 1), refEntry("Font", <<"/", "B">>, 2),
    refEntry("ColorSpace", <<"/", "A">>, 1), refEntry("Properties", <<"/", "A">>, 1),
    otherEntry("Font", "none"), otherEntry("ProcSet", "names"), otherEntry("ProcSet", "empty"),
    otherEntry("Z", "number") }
  \cup {[key |-> "ExtGState", kind |-> "inline", name |-> name, id |-> 0] : name \in ResNames}

\* The keys of a sequence of entries, in the order of their first entry.
RECURSIVE keysIn(_)
keysIn(entries) ==
  IF Len(entries) = 0 THEN <<>>
  ELSE LET rest == keysIn(SubSeq(entries, 1, Len(entries) - 1))
           key == entries[Len(entries)].key
       IN IF \E k \in 1..Len(rest) : rest[k] = key THEN rest ELSE Append(rest, key)

inKey(entries, key) ==
  LET isIn(e) == e.key = key IN SelectSeq(entries, isIn)

\* The source dictionary a sequence of entries describes: its keys, each with
\* the entries of its sub-map.
sourceOf(entries) ==
  LET keys == keysIn(entries)
  IN [k \in 1..Len(keys) |-> [key |-> keys[k], entries |-> inKey(entries, keys[k])]]

\* Every key once, the keys toArray writes first coming last.
FullSource ==
  sourceOf(<< otherEntry("Z", "number"), otherEntry("ProcSet", "names"),
              refEntry("Properties", <<"/", "A">>, 1), refEntry("Font", <<"/", "A">>, 1),
              refEntry("Shading", <<"/", "A">>, 1), refEntry("Pattern", <<"/", "A">>, 1),
              refEntry("ColorSpace", <<"/", "A">>, 1),
              refEntry("XObject", <<"/", "A">>, 2), refEntry("XObject", <<"/", "B">>, 1),
              refEntry("ExtGState", <<"/", "A">>, 1),
              [key |-> "ExtGState", kind |-> "inline", name |-> <<"/", "B">>, id |-> 0] >>)

\* The source dictionaries, each with the style it is written in: without
\* white space between its tokens, and the full one also with.
Sources ==
  {<<sourceOf(entries), FALSE>> :
     entries \in UNION {[1..k -> ResEntries] : k \in 0..MaxResEntries}}
  \cup {<<FullSource, FALSE>>, <<FullSource, TRUE>>}

\* The bytes of one entry of a source dictionary.
sourceEntryBytes(e) ==
  CASE e.kind = "ref" -> e.name \o <<" ">> \o numberBytes(e.id) \o <<" ", "0", " ", "R">>
    [] e.kind = "inline" -> e.name \o InlineGs
    [] e.kind = "names" -> <<"/", "P", "D", "F", " ", "/", "T", "e", "x", "t">>
    [] e.kind = "number" -> <<" ", "1">>
    [] OTHER -> <<>>

RECURSIVE sourceEntriesBytes(_)
sourceEntriesBytes(entries) ==
  IF Len(entries) = 0 THEN <<>>
  ELSE sourceEntryBytes(Head(entries)) \o sourceEntriesBytes(Tail(entries))

\* The bytes of a source dictionary; spaced puts white space between tokens.
RECURSIVE sourceItemsBytes(_, _)
sourceItemsBytes(items, spaced) ==
  IF Len(items) = 0 THEN <<>>
  ELSE LET item == Head(items)
           sp == IF spaced THEN <<" ">> ELSE <<>>
           value == sourceEntriesBytes(item.entries)
       IN (CASE item.key = "Z" -> <<"/", "Z">> \o value
             [] item.key = "ProcSet" -> keyBytes.ProcSet \o sp \o <<"[">> \o value \o <<"]">>
             [] OTHER -> keyBytes[item.key] \o sp \o <<"<", "<">> \o sp \o value \o <<">", ">">>)
          \o (IF spaced THEN <<"\n">> ELSE <<>>)
          \o sourceItemsBytes(Tail(items), spaced)

sourceBytes(items, spaced) == <<"<", "<">> \o sourceItemsBytes(items, spaced) \o <<">", ">">>

\* The bounds of a dictionary that fills its buffer.
wholeDictBounds(d) ==
  IF Len(d) > 4
  THEN [start |-> 0, end |-> Len(d) - 1, contentStart |-> 2, contentEnd |-> Len(d) - 3]
  ELSE [start |-> 0, end |-> Len(d) - 1]

\* Not called yet.
NotYet == [pending |-> TRUE]

InitRes ==
  /\ call = NoCall
  /\ \E source \in Sources :
       /\ src = source[1]
       /\ data = sourceBytes(source[1], source[2])
       /\ b = wholeDictBounds(sourceBytes(source[1], source[2]))
  /\ resolver \in Resolvers
  /\ rd = NotYet
  /\ out = NotYet
  /\ rd2 = NotYet
  /\ NoAnnotator

\* ResourceDict.parse({parser, bounds, parseInfoGetter}) on the source.
Parse ==
  /\ rd = NotYet
  /\ rd' = parse([parser |-> data, bounds |-> b, parseInfoGetter |-> resolver])
  /\ UNCHANGED <<data, call, b, src, resolver, out, rd2, annotator>>

\* The name the setters are called with: a name some sources use in the same
\* category, some in another category, and some not at all.
SetNames == { <<"/", "A">> }

\* A graphics state made by the caller: it has no reference.
SetStates == { [class |-> "GraphicsStateDict", ref |-> Nil, source |-> InlineGs] }

\* An XObject made by the caller, without a reference, and one of the document.
SetXObjects ==
  { [class |-> "ImageStream", ref |-> Nil, source |-> ImageObject],
    [class |-> "XFormStream", ref |-> [id |-> 2, generation |-> 0], source |-> FormObject] }

\* setGraphicsState(name, state) on the parsed dictionary.
SetGraphicsState ==
  /\ "value" \in DOMAIN rd
  /\ out = NotYet
  /\ \E name \in SetNames, state \in SetStates :
       /\ rd' = [rd EXCEPT !.value = setGraphicsState(@, name, state)]
       /\ call' = [op |-> "setGraphicsState", name |-> name, value |-> state]
  /\ UNCHANGED <<data, b, src, resolver, out, rd2, annotator>>

\* setXObject(name, xObject) on the parsed dictionary.
SetXObject ==
  /\ "value" \in DOMAIN rd
  /\ out = NotYet
  /\ \E name \in SetNames, xObject \in SetXObjects :
       /\ rd' = [rd EXCEPT !.value = setXObject(@, name, xObject)]
       /\ call' = [op |-> "setXObject", name |-> name, value |-> xObject]
  /\ UNCHANGED <<data, b, src, resolver, out, rd2, annotator>>

\* toArray() of the parsed dictionary.
ToArray ==
  /\ rd \notin {NotYet, Nil, Hang}
  /\ out = NotYet
  /\ out' = toArray(rd.value)
  /\ UNCHANGED <<data, call, b, src, resolver, rd, rd2, annotator>>

\* ResourceDict.parse of the bytes toArray returned, with the same resolver.
ParseAgain ==
  /\ out \notin {NotYet, Throw}
  /\ ~rd.value.edited
  /\ rd2 = NotYet
  /\ rd2' = IF getDictBoundsAt(out.bytes, 0, TRUE) \in {Nil, Hang} THEN [noBounds |-> TRUE]
            ELSE parse([parser |-> out.bytes, bounds |-> getDictBoundsAt(out.bytes, 0, TRUE),
                        parseInfoGetter |-> resolver])
  /\ UNCHANGED <<data, call, b, src, resolver, rd, out, annotator>>

\* ------------------------------- ResourceDict.parse of damaged sources
\* The buffer holds a resource dictionary with one of the seven map keys and
\* after it a value that is a dictionary or something else.  src records how
\* the buffer was built.

\* What follows the key: a dictionary of references, an empty dictionary, a
\* dictionary with an inline dictionary whose string literal ends in an escaped
\* backslash, a reference, a number, a name, an array, a string literal, a hex
\* string and nothing.
ValueBytes ==
  [dict |-> <<"<", "<", "/", "A", " ", "1", " ", "0", " ", "R", ">", ">">>,
   empty |-> <<"<", "<", ">", ">">>,
   escaped |-> <<"<", "<", "/", "A", "<", "<", "/", "T", "(", "\\", "\\", ")", ">", ">", ">", ">">>,
   ref |-> <<" ", "1", " ", "0", " ", "R">>,
   number |-> <<" ", "1">>,
   name |-> <<"/", "N">>,
   array |-> <<"[", "/", "A", "]">>,
   literal |-> <<"(", "x", ")">>,
   hex |-> <<"<", "A", "B", ">">>,
   none |-> <<>>]

\* The values that are dictionaries.
DictValues == {"dict", "empty", "escaped"}

\* An entry that parses, before the key.
GoodEntry == keyBytes.ExtGState \o <<"<", "<", "/", "B", " ", "2", " ", "0", " ", "R", ">", ">">>

valueSourceBytes(source) ==
  <<"<", "<">> \o (IF source.after THEN GoodEntry ELSE <<>>)
  \o keyBytes[source.key] \o ValueBytes[source.kind] \o <<">", ">">>

ValueSources == [key : mapKeys7, kind : DOMAIN ValueBytes, after : BOOLEAN]

InitValue ==
  /\ call = NoCall
  /\ src \in ValueSources
  /\ data = valueSourceBytes(src)
  /\ b = wholeDictBounds(valueSourceBytes(src))
  /\ resolver \in Resolvers
  /\ rd = NotYet
  /\ out = NotYet
  /\ rd2 = NotYet
  /\ NoAnnotator

NextValue == Parse

SpecValue == InitValue /\ [][NextValue]_vars

NextRes == Parse \/ SetGraphicsState \/ SetXObject \/ ToArray \/ ParseAgain

SpecRes == InitRes /\ [][NextRes]_vars

\* ===================================================================
\* StampAnnotator.
\*
\* annotator holds the fields of one StampAnnotator and what it has done:
\*   tempAnnotation  this._tempAnnotation, a stamp or Nil (undefined or null)
\*   rendering       the stamps whose renderAsync() has not completed: each is a
\*                   call of createTempStampAnnotationAsync suspended at its await
\*   created         the number of stamps createStandard has made
\*   appended        the stamps passed to appendAnnotationToPage, in order
\*   destroyed       destroy() has been called
\* A stamp is known by the number of the createStandard call that made it.  The
\* handlers run to completion one at a time; the continuation of a suspended
\* createTempStampAnnotationAsync runs when its render has completed, in any
\* order with the handlers.  Pointer events are delivered until destroy().
\* ===================================================================

\* The stamps an annotator creates at most.
MaxStamps == 3

\* StampAnnotation.createStandard: a new object at every call.
createStandard(n) == [stamp |-> n]

\* createTempStampAnnotationAsync up to its await: the stamp is created and
\* its rendering started.
createTempStampAnnotationAsync(a) ==
  [a EXCEPT !.created = a.created + 1,
            !.rendering = a.rendering \cup {createStandard(a.created + 1)}]

\* createTempStampAnnotationAsync after its await, for the stamp it created.
createTempStampAnnotationResumed(a, stamp) ==
  [a EXCEPT !.rendering = a.rendering \ {stamp}, !.tempAnnotation = stamp]

\* onStampPointerUp: e.contextMenuTap stands for a long touch tap without
\* displacement, e.pageCoords for whether getPageCoordsUnderPointer finds a
\* page under the pointer.
onStampPointerUp(a, e) ==
  IF ~e.isPrimary \/ e.button = 2 \/ e.contextMenuTap THEN a
  ELSE IF ~e.pageCoords \/ a.tempAnnotation = Nil THEN a
  ELSE createTempStampAnnotationAsync(
         [a EXCEPT !.appended = Append(a.appended, a.tempAnnotation)])

\* onStampPointerMove reads this._tempAnnotation.Rect: it throws when there is
\* no temp stamp, and changes no field.
onStampPointerMove(a, e) ==
  IF ~e.isPrimary THEN Nil
  ELSE IF a.tempAnnotation = Nil THEN Throw
  ELSE Nil

destroy(a) == [a EXCEPT !.tempAnnotation = Nil, !.destroyed = TRUE]

PointerUpEvents ==
  [isPrimary : BOOLEAN, button : {0, 2}, contextMenuTap : BOOLEAN, pageCoords : BOOLEAN]

PointerMoveEvents == [isPrimary : BOOLEAN]

\* The annotator after its constructor: init() has called
\* createTempStampAnnotationAsync.
InitStamp ==
  /\ data = <<>>
  /\ b = Nil
  /\ call = NoCall
  /\ src = Nil /\ resolver = Nil /\ rd = Nil /\ out = Nil /\ rd2 = Nil
  /\ annotator = createTempStampAnnotationAsync(
                   [tempAnnotation |-> Nil, rendering |-> {}, created |-> 0,
                    appended |-> <<>>, destroyed |-> FALSE])

OnStampPointerUp ==
  /\ ~annotator.destroyed
  /\ \E e \in PointerUpEvents :
       /\ onStampPointerUp(annotator, e).created <= MaxStamps
       /\ annotator' = onStampPointerUp(annotator, e)
       /\ call' = [op |-> "onStampPointerUp", e |-> e]
  /\ UNCHANGED <<data, b, resVars>>

OnStampPointerMove ==
  /\ ~annotator.destroyed
  /\ \E e \in PointerMoveEvents :
       call' = [op |-> "onStampPointerMove", e |-> e, res |-> onStampPointerMove(annotator, e)]
  /\ UNCHANGED <<data, b, resVars, annotator>>

\* The render of a stamp completes and the call that awaits it goes on.
RenderCompleted ==
  /\ \E stamp \in annotator.rendering :
       annotator' = createTempStampAnnotationResumed(annotator, stamp)
  /\ call' = [op |-> "createTempStampAnnotationAsync"]
  /\ UNCHANGED <<data, b, resVars>>

Destroy ==
  /\ ~annotator.destroyed
  /\ annotator' = destroy(annotator)
  /\ call' = [op |-> "destroy"]
  /\ UNCHANGED <<data, b, resVars>>

NextStamp == OnStampPointerUp \/ OnStampPointerMove \/ RenderCompleted \/ Destroy

SpecStamp == InitStamp /\ [][NextStamp]_vars

\* ===================================================================
\* Claims
\* ===================================================================

\* C5: findSubarrayIndex with closedOnly = true never returns a match whose
\* neighbouring byte past the match in the scan direction (after the match end
\* scanning forward, before the match start scanning backward) is a regular
\* byte; a match that touches the buffer edge counts as closed.
C5_ClosedOnlyMatchIsClosed ==
  (call.op = "findSubarrayIndex" /\ call.closedOnly /\ call.res # Nil) =>
    LET past == IF call.direction THEN At(data, call.res.end + 1)
                ELSE At(data, call.res.start - 1)
    IN /\ bytesOf(data, call.res.start, call.res.end) = call.sub
       /\ past \notin (FindBytes \ (spaceChars \cup delimiterChars))

\* A closedOnly search returned a match after passing over an occurrence that
\* was not closed (the same search with closedOnly = false returns another one).
C5_Witness ==
  /\ call.op = "findSubarrayIndex" /\ call.closedOnly /\ call.res # Nil
  /\ call.res # findSubarrayIndex(data, call.sub, call.direction,
                                  call.minIndex, call.maxIndex, FALSE)

\* C6: skipEmpty is idempotent: skipEmpty(skipEmpty(i)) = skipEmpty(i) for every
\* buffer and index, also after several consecutive comment lines and for -1.
C6_SkipEmptyIdempotent ==
  call.op = "skipEmptyAgain" => call.res = call.first

\* The index of the ']' that brings the bracket depth opened by the '[' at i
\* back to zero, -1 when there is none in the buffer.
matchingBracket(d, i) ==
  LET depth(j) == countOf(bytesOf(d, i, j), {"["}) - countOf(bytesOf(d, i, j), {"]"})
      closing == {j \in (i + 1)..maxIndexOf(d) : depth(j) = 0}
  IN IF closing = {} THEN -1
     ELSE CHOOSE j \in closing : \A k \in closing : j <= k

\* C7: getArrayBoundsAt(i) returns nil whenever the '[' at i has no matching ']'
\* in the buffer, and bounds only when it has one, with end the index of that ']'.
C7_ArrayBoundsNilWhenUnbalanced ==
  (call.op = "getArrayBoundsAt" /\ At(data, call.start) = "[") =>
    LET m == matchingBracket(data, call.start)
    IN IF m = -1 THEN call.res = Nil
       ELSE call.res = [start |-> call.start, end |-> m]

\* C8: parseNumberAt returns a result for "0", "-0", "0.", ".0", "-.5" and
\* "123.456", nil for ".", "-", "-." and "abc", and nil whenever the token at the
\* start position holds no digit.
C8_NumberParserAcceptsAndRejects ==
  (call.op = "parseNumberAt" /\ ~call.skip) =>
    LET token == bytesOf(data, call.start, regularRunEnd(data, call.start) - 1)
    IN /\ (call.start = 0 /\ data \in AcceptedNumbers) => call.res # Nil
       /\ (call.start = 0 /\ data \in RejectedNumbers) => call.res = Nil
       /\ countOf(token, digitChars) = 0 => call.res = Nil

\* A token 'N G R' starts at i: a digit run, spaces, a digit run, spaces and an
\* R that ends the token (the byte after it is not regular, or is past the buffer).
isReferenceTokenAt(d, i) ==
  \E n \in i..maxIndexOf(d), g \in i..maxIndexOf(d), h \in i..maxIndexOf(d), r \in i..maxIndexOf(d) :
    /\ n < g /\ g <= h /\ h < r
    /\ \A k \in i..n : isDigit(At(d, k))
    /\ n + 1 < g /\ \A k \in (n + 1)..(g - 1) : At(d, k) = " "
    /\ \A k \in g..h : isDigit(At(d, k))
    /\ h + 1 < r /\ \A k \in (h + 1)..(r - 1) : At(d, k) = " "
    /\ At(d, r) = "R"
    /\ ~isRegularChar(At(d, r + 1))

\* No R lies between the digit at i and the next delimiter (or the buffer's end).
noReferenceKeywordAfter(d, i) ==
  \A k \in (i + 1)..maxIndexOf(d) :
    At(d, k) = "R" => \E m \in (i + 1)..(k - 1) : At(d, m) \in delimiterChars

\* C9: getValueTypeAt at the first digit of a token 'N G R' returns Reference,
\* whether or not a delimiter follows the token in the buffer; at the first digit
\* of a digit run with no R before the next delimiter it returns Number.
C9_ReferenceAndNumberTypes ==
  (call.op = "getValueTypeAt" /\ isDigit(At(data, call.start))) =>
    /\ isReferenceTokenAt(data, call.start) => call.res = "REF"
    /\ noReferenceKeywordAfter(data, call.start) => call.res = "NUMBER"

\* C1: for every buffer and every byte range b = [s, e] that holds a well-formed
\* dictionary (names, numbers, references, hex strings, string literals, arrays
\* and nested dictionaries as values, with or without white space between
\* tokens), getDictBoundsAt(s) returns bounds with start = s and end = e, the
\* index of the second '>' of the '>>' that closes the dictionary opened at s.
C1_DictBoundsOfWellFormedDict ==
  call.op = "getDictBoundsAt" =>
    /\ call.res \notin {Nil, Hang}
    /\ call.res.start = b.start
    /\ call.res.end = b.end

\* The parts of a literal the claim names: dictionary delimiters and escaped
\* parentheses.
NamedLiteralParts == { <<">", ">">>, <<"<", "<">>, <<"\\", "(">>, <<"\\", ")">> }

\* C2: inside a string literal no '<' or '>' changes the dictionary depth and a
\* parenthesis preceded by a backslash does not change the literal depth; so for
\* every dictionary whose literal holds such bytes, the end getDictBoundsAt
\* returns is the '>>' that closes the dictionary, not a '>>' inside the literal.
C2_DictBoundsIgnoreLiteralContent ==
  (/\ call.op = "getDictBoundsAt"
   /\ \E k \in 1..Len(b.literal) : b.literal[k] \in NamedLiteralParts) =>
    /\ call.res \notin {Nil, Hang}
    /\ call.res.end = b.end

\* ------------------------------------------------------- ResourceDict

\* The resolved maps of a ResourceDict: each key with the object it maps to.
resolvedMapsOf(obj) ==
  [gs |-> {obj.gsMap[k] : k \in 1..Len(obj.gsMap)},
   fonts |-> {obj.fontsMap[k] : k \in 1..Len(obj.fontsMap)},
   xObjects |-> {obj.xObjectsMap[k] : k \in 1..Len(obj.xObjectsMap)}]

RECURSIVE tokenEnd(_, _)
tokenEnd(d, j) ==
  IF At(d, j) \in delimiterChars \cup spaceChars \cup {Undef} THEN j ELSE tokenEnd(d, j + 1)

\* One step of reading bytes from left to right: s.i is the index read,
\* s.depth how many dictionaries and arrays are open there, s.keys the names
\* met so far directly inside the outermost dictionary, each with its index.
keyStep(d, s) ==
  IF s.i >= Len(d) THEN s
  ELSE IF At(d, s.i) = "<" /\ At(d, s.i + 1) = "<"
       THEN [s EXCEPT !.i = s.i + 2, !.depth = s.depth + 1]
  ELSE IF At(d, s.i) = ">" /\ At(d, s.i + 1) = ">"
       THEN [s EXCEPT !.i = s.i + 2, !.depth = s.depth - 1]
  ELSE IF At(d, s.i) = "[" THEN [s EXCEPT !.i = s.i + 1, !.depth = s.depth + 1]
  ELSE IF At(d, s.i) = "]" THEN [s EXCEPT !.i = s.i + 1, !.depth = s.depth - 1]
  ELSE IF At(d, s.i) = "/"
       THEN LET end == tokenEnd(d, s.i + 1)
            IN [s EXCEPT !.i = end,
                         !.keys = IF s.depth = 1
                                  THEN Append(@, [name |-> bytesOf(d, s.i, end - 1), at |-> s.i])
                                  ELSE @]
  ELSE [s EXCEPT !.i = s.i + 1]

RECURSIVE keySteps(_, _, _)
keySteps(d, s, n) ==
  IF n <= 0 \/ s.i >= Len(d) THEN s
  ELSE IF n = 1 THEN keyStep(d, s)
  ELSE keySteps(d, keySteps(d, s, n \div 2), n - (n \div 2))

\* The names written directly inside the outermost dictionary of d, in the
\* order they are written, each with the index it is written at.
keysWritten(d) == keySteps(d, [i |-> 0, depth |-> 0, keys |-> <<>>], Len(d)).keys

\* The order the keys are to be written in.
KeyOrder ==
  <<"ExtGState", "XObject", "ColorSpace", "Pattern", "Shading", "Font", "Properties", "ProcSet">>

\* Whether a key is to be written: the resolved map is non-empty for
\* ExtGState and XObject, the raw field is set for the others.
isToBeWritten(obj, key) ==
  CASE key = "ExtGState" -> Len(obj.gsMap) > 0
    [] key = "XObject" -> Len(obj.xObjectsMap) > 0
    [] OTHER -> obj[key] # Nil

\* C4: the bytes toArray returns start with '<<', and the keys written in that
\* dictionary are exactly the keys to be written (ExtGState and XObject when
\* their resolved map is non-empty, the other six when their raw field is
\* set), each once, in the order ExtGState, XObject, ColorSpace, Pattern,
\* Shading, Font, Properties, ProcSet, the first of them right after the '<<',
\* whatever the order of the keys in the source was.
C4_KeysInFixedOrder ==
  out \notin {NotYet, Throw} =>
    LET written == keysWritten(out.bytes)
        toBeWritten(key) == isToBeWritten(rd.value, key)
        expected == SelectSeq(KeyOrder, toBeWritten)
    IN /\ At(out.bytes, 0) = "<" /\ At(out.bytes, 1) = "<"
       /\ Len(written) = Len(expected)
       /\ \A k \in 1..Len(written) : written[k].name = keyBytes[expected[k]]
       /\ Len(written) > 0 => written[1].at = 2

\* C4 witness: toArray has written all eight keys for a dictionary whose
\* source had them in the opposite order.
C4_Witness ==
  /\ out \notin {NotYet, Throw}
  /\ ~rd.value.edited
  /\ Len(keysWritten(out.bytes)) = 8
  /\ src[Len(src)].key = "ExtGState"
  /\ src[2].key = "ProcSet"

\* The resolved map of a category.
resolvedMapOf(obj, key) ==
  CASE key = "ExtGState" -> obj.gsMap
    [] key = "XObject" -> obj.xObjectsMap
    [] key = "Font" -> obj.fontsMap

\* The entries the source dictionary has under a key.
sourceEntriesOf(key) ==
  IF \E k \in 1..Len(src) : src[k].key = key
  THEN src[CHOOSE k \in 1..Len(src) : src[k].key = key].entries
  ELSE <<>>

\* The resolver knows the object and its bytes are a dictionary.
resolvesAndParses(id) ==
  /\ resolver.objects[id] # Nil
  /\ At(resolver.objects[id].parser, 0) = "<"
  /\ At(resolver.objects[id].parser, 1) = "<"

\* The source gives the name an object under the key: the last reference
\* written for the name (in a Map the last value set for a key is the one it
\* keeps) resolves and parses, or, in ExtGState, the name has an inline
\* dictionary.
givesObject(key, name) ==
  LET entries == sourceEntriesOf(key)
      refs == {k \in 1..Len(entries) : entries[k].kind = "ref" /\ entries[k].name = name}
      last == CHOOSE k \in refs : \A m \in refs : m <= k
  IN \/ refs # {} /\ resolvesAndParses(entries[last].id)
     \/ /\ key = "ExtGState"
        /\ \E k \in 1..Len(entries) : entries[k].kind = "inline" /\ entries[k].name = name

\* The resolver returns nil for the id of an entry of one of the three maps.
someEntryUnresolved ==
  \E key \in {"ExtGState", "XObject", "Font"} :
    \E k \in 1..Len(sourceEntriesOf(key)) :
      /\ sourceEntriesOf(key)[k].kind = "ref"
      /\ resolver.objects[sourceEntriesOf(key)[k].id] = Nil

\* C10: when the resolver returns nil for the id of an entry of the raw
\* ExtGState, XObject or Font sub-map, the parse still returns a ResourceDict,
\* and, as long as no setter has been called on it, each resolved map holds
\* the prefixed key of a name of the source exactly when an entry of the
\* source gives that name an object, and no other key: the entries whose id
\* does not resolve are absent and every other entry is present.
C10_UnresolvedEntryAloneIsDropped ==
  (rd # NotYet /\ resolver.present /\ someEntryUnresolved) =>
    /\ "value" \in DOMAIN rd
    /\ ~rd.value.edited =>
         \A key \in {"ExtGState", "XObject", "Font"} :
           /\ \A name \in ResNames :
                (keyBytes[key] \o name) \in mapKeys(resolvedMapOf(rd.value, key))
                  <=> givesObject(key, name)
           /\ \A resolved \in mapKeys(resolvedMapOf(rd.value, key)) :
                \E name \in ResNames : resolved = keyBytes[key] \o name

\* C10 witness: a sub-map had two entries, the resolver returned nil for the
\* first and an object for the second, and only the second is in the
\* resolved map.
C10_Witness ==
  /\ rd # NotYet
  /\ "value" \in DOMAIN rd
  /\ ~rd.value.edited
  /\ resolver.present
  /\ \E key \in {"XObject", "Font"} :
       LET entries == sourceEntriesOf(key)
       IN /\ Len(entries) = 2
          /\ resolver.objects[entries[1].id] = Nil
          /\ resolvesAndParses(entries[2].id)
          /\ (keyBytes[key] \o entries[1].name) \notin mapKeys(resolvedMapOf(rd.value, key))
          /\ (keyBytes[key] \o entries[2].name) \in mapKeys(resolvedMapOf(rd.value, key))

\* An entry of the resolved XObject map has no reference.
hasXObjectWithoutRef(obj) ==
  \E k \in 1..Len(obj.xObjectsMap) : obj.xObjectsMap[k][2].ref = Nil

\* C11: a call of toArray on a dictionary whose resolved XObject map has an
\* entry without a reference leaves with the exception: no bytes are
\* returned, whatever else the dictionary holds, and the dictionary (its
\* resolved maps, its raw fields and its edited flag) is as it was before
\* the call.
C11_ToArrayFailsWithoutRef ==
  [][(out = NotYet /\ out' # NotYet /\ hasXObjectWithoutRef(rd.value))
       => (out' = Throw /\ rd' = rd)]_vars

\* C11 witness: toArray has left with the exception on a dictionary with a
\* graphics state and an XObject that has a reference, both of which come
\* before the XObject without one.
C11_Witness ==
  /\ out = Throw
  /\ Len(rd.value.gsMap) > 0
  /\ Len(rd.value.xObjectsMap) > 1
  /\ rd.value.xObjectsMap[1][2].ref # Nil
  /\ hasXObjectWithoutRef(rd.value)
\* str starts with prefix.
startsWith(str, prefix) ==
  Len(str) >= Len(prefix) /\ SubSeq(str, 1, Len(prefix)) = prefix

\* The ResourceDict objects there are: the parsed one and the one parsed
\* again from its bytes.
resourceDicts == {r.value : r \in {r \in {rd, rd2} : "value" \in DOMAIN r}}

\* C12: in every ResourceDict, after parse and after any calls of
\* setGraphicsState and setXObject, every key of the resolved graphics-state
\* map starts with '/ExtGState' and maps to a graphics state, every key of the
\* resolved font map starts with '/Font' and maps to a font, every key of the
\* resolved XObject map starts with '/XObject' and maps to a form or an image,
\* and no key is in two of the maps: a raw name used in several categories has
\* an entry of its own in each.
C12_ResolvedKeysArePrefixed ==
  \A obj \in resourceDicts :
    /\ \A k \in 1..Len(obj.gsMap) :
         /\ startsWith(obj.gsMap[k][1], keyBytes.ExtGState)
         /\ obj.gsMap[k][2].class = "GraphicsStateDict"
    /\ \A k \in 1..Len(obj.fontsMap) :
         /\ startsWith(obj.fontsMap[k][1], keyBytes.Font)
         /\ obj.fontsMap[k][2].class = "FontDict"
    /\ \A k \in 1..Len(obj.xObjectsMap) :
         /\ startsWith(obj.xObjectsMap[k][1], keyBytes.XObject)
         /\ obj.xObjectsMap[k][2].class \in {"XFormStream", "ImageStream"}
    /\ mapKeys(obj.gsMap) \cap mapKeys(obj.fontsMap) = {}
    /\ mapKeys(obj.gsMap) \cap mapKeys(obj.xObjectsMap) = {}
    /\ mapKeys(obj.fontsMap) \cap mapKeys(obj.xObjectsMap) = {}

\* C12 witness: the raw name /A is a font of the parsed dictionary, whose
\* source has no graphics state and no XObject, and has been set on it as a
\* graphics state and as an XObject.
C12_Witness ==
  /\ "value" \in DOMAIN rd
  /\ rd.value.edited
  /\ sourceEntriesOf("ExtGState") = <<>>
  /\ sourceEntriesOf("XObject") = <<>>
  /\ (keyBytes.ExtGState \o <<"/", "A">>) \in mapKeys(rd.value.gsMap)
  /\ (keyBytes.Font \o <<"/", "A">>) \in mapKeys(rd.value.fontsMap)
  /\ (keyBytes.XObject \o <<"/", "A">>) \in mapKeys(rd.value.xObjectsMap)
\* C13: after setGraphicsState(n, s) the dictionary is edited, the getter
\* returns s for the key '/ExtGState' followed by n and nothing for n itself,
\* the iterator yields that key with s as its last pair, after every entry
\* inserted before the call, and the font and XObject maps are as they were;
\* likewise for setXObject(n, x) with '/XObject', the XObject getter and
\* iterator, and the graphics-state and font maps.
C13_SetterStoresUnderPrefixedKeyLast ==
  [][(call' # call \/ rd' # rd) =>
       /\ call'.op = "setGraphicsState" =>
            LET key == keyBytes.ExtGState \o call'.name
                pairs == getGraphicsStates(rd'.value)
            IN /\ rd'.value.edited
               /\ getGraphicsState(rd'.value, key) = call'.value
               /\ getGraphicsState(rd'.value, call'.name) = Nil
               /\ pairs[Len(pairs)] = <<key, call'.value>>
               /\ rd'.value.fontsMap = rd.value.fontsMap
               /\ rd'.value.xObjectsMap = rd.value.xObjectsMap
       /\ call'.op = "setXObject" =>
            LET key == keyBytes.XObject \o call'.name
                pairs == getXObjects(rd'.value)
            IN /\ rd'.value.edited
               /\ getXObject(rd'.value, key) = call'.value
               /\ getXObject(rd'.value, call'.name) = Nil
               /\ pairs[Len(pairs)] = <<key, call'.value>>
               /\ rd'.value.fontsMap = rd.value.fontsMap
               /\ rd'.value.gsMap = rd.value.gsMap]_vars
\* C14: for the 31 bytes '<< /Length 42 /Type /Catalog >>', getDictBoundsAt(0)
\* returns start 0, end 29, contentStart 2 and contentEnd 27.
C14_CatalogDictBounds ==
  (call.op = "getDictBoundsAt" /\ data = CatalogDict /\ call.start = 0) =>
    call.res = [start |-> 0, end |-> 29, contentStart |-> 2, contentEnd |-> 27]
\* C15: getDictBoundsAt and skipToNextName return for every buffer and every
\* start index, also when a '<<' is never closed.
C15_BoundsAndSkipTerminate ==
  /\ call.op = "getDictBoundsAt" => call.res # Hang
  /\ call.op = "skipToNextName" => call.res # HangIndex

\* The index of the first byte of token k of a token list.
tokenStart(tokens, k) == Len(concat(SubSeq(tokens, 1, k - 1)))

\* Index r lies inside a dictionary, array, string literal, hex string or
\* comment of the token list that begins at or after start.
insideContainer(tokens, start, r) ==
  \E k \in 1..Len(tokens) :
    /\ tokens[k] \in ContainerTokens
    /\ tokenStart(tokens, k) >= start
    /\ tokenStart(tokens, k) < r
    /\ r < tokenStart(tokens, k) + Len(tokens[k])

\* C16: what skipToNextName(start, max) returns is -1 or an index r with
\* start <= r <= max of a '/' byte that starts a name, and that name is not
\* inside a dictionary, array, string literal, hex string or comment that
\* begins at or after start.
C16_SkipToNextNameReturnsTopLevelName ==
  (call.op = "skipToNextName" /\ call.res # HangIndex) =>
    \/ call.res = -1
    \/ /\ call.start <= call.res
       /\ call.res <= call.max
       /\ At(data, call.res) = "/"
       /\ isRegularChar(At(data, call.res + 1))
       /\ ~insideContainer(b, call.start, call.res)
\* The byte at k is escaped in a literal that starts at start: the backslashes
\* that immediately precede it, back to start, are odd in number.
escapedIn(d, start, k) ==
  \E m \in start..(k - 1) :
    /\ \A j \in (m + 1)..(k - 1) : At(d, j) = "\\"
    /\ At(d, m) # "\\"
    /\ (k - 1 - m) % 2 = 1

\* The unescaped '(' minus the unescaped ')' among the bytes start..k.
balanceIn(d, start, k) ==
  Cardinality({j \in start..k : At(d, j) = "(" /\ ~escapedIn(d, start, j)})
  - Cardinality({j \in start..k : At(d, j) = ")" /\ ~escapedIn(d, start, j)})

\* The unescaped ')' after start at which the parentheses since start balance.
closingIn(d, start) ==
  {k \in (start + 1)..maxIndexOf(d) :
     At(d, k) = ")" /\ ~escapedIn(d, start, k) /\ balanceIn(d, start, k) = 0}

\* C17: getLiteralBounds at a '(' returns as end the first unescaped ')' at
\* which the unescaped parentheses seen since the '(' balance, a backslash
\* escaping exactly the byte after it, and nil when the buffer has no such ')'.
C17_LiteralEndsAtBalancingParenthesis ==
  (call.op = "getLiteralBounds" /\ At(data, call.start) = "(") =>
    IF closingIn(data, call.start) = {} THEN call.res = Nil
    ELSE /\ call.res # Nil
         /\ call.res.start = call.start
         /\ call.res.end \in closingIn(data, call.start)
         /\ \A k \in closingIn(data, call.start) : call.res.end <= k

\* C17: a literal was bounded that holds an escaped ')' before its closing ')'.
C17_Witness ==
  /\ call.op = "getLiteralBounds"
  /\ At(data, call.start) = "("
  /\ call.res # Nil
  /\ \E k \in (call.start + 1)..(call.res.end - 1) :
       At(data, k) = ")" /\ escapedIn(data, call.start, k)
\* C18: when parseBoolAt returns a result, the bytes start..end spell 'true'
\* for the value true and 'false' for the value false, no delimiter lies in
\* start..end, and the byte at end + 1 is not regular.
C18_BoolResultSpellsClosedKeyword ==
  (call.op = "parseBoolAt" /\ call.res # Nil) =>
    /\ bytesOf(data, call.res.start, call.res.end)
         = (IF call.res.value THEN <<"t", "r", "u", "e">> ELSE <<"f", "a", "l", "s", "e">>)
    /\ \A k \in call.res.start..call.res.end : At(data, k) \notin delimiterChars
    /\ ~isRegularChar(At(data, call.res.end + 1))
\* The name that follows the property name in an entry of the dictionary itself.
ownValue(entry) == SubSeq(entry, Len(entry) - 1, Len(entry))

\* C19: the value parseDictPropertyByName returns is supplied by an occurrence
\* of the property name at nesting depth 1, outside every string literal and
\* followed by a non-regular byte, never by an occurrence inside a nested
\* dictionary, inside a string literal or at the beginning of a longer name;
\* nil is returned when there is no accepted occurrence.
C19_PropertyOnlyFromOwnEntry ==
  call.op = "parseDictPropertyByName" =>
    \/ call.res = Nil
    \/ \E k \in 1..Len(b) : b[k] \in OwnEntries /\ call.res = ownValue(b[k])
\* C20: bounds returned by getDictBoundsAt, getIndirectObjectBoundsAt and
\* getXrefTableBoundsAt that carry contentStart and contentEnd have
\* start <= contentStart <= contentEnd <= end; with empty content the inner
\* pair is left out or the result is nil.
C20_ContentBoundsAreOrdered ==
  (/\ call.op \in {"getDictBoundsAt", "getIndirectObjectBoundsAt", "getXrefTableBoundsAt"}
   /\ "contentStart" \in DOMAIN call.res) =>
    /\ call.res.start <= call.res.contentStart
    /\ call.res.contentStart <= call.res.contentEnd
    /\ call.res.contentEnd <= call.res.end
\* The indices of CR and LF bytes in the range a scan from start covers.
lineBreaksFrom(d, direction, start) ==
  {k \in (IF direction THEN start..maxIndexOf(d) ELSE 0..start) : At(d, k) \in newLineChars}

\* The first line break a scan from start meets.
nearestLineBreak(d, direction, start) ==
  CHOOSE k \in lineBreaksFrom(d, direction, start) :
    \A m \in lineBreaksFrom(d, direction, start) : IF direction THEN k <= m ELSE m <= k

\* The bytes of the line terminator a scan meets at k: CR LF is one terminator.
terminatorAt(d, direction, k) ==
  IF direction /\ At(d, k) = "\r" /\ At(d, k + 1) = "\n" THEN {k, k + 1}
  ELSE IF ~direction /\ At(d, k) = "\n" /\ At(d, k - 1) = "\r" THEN {k - 1, k}
  ELSE {k}

\* C21: findNewLineIndex returns -1 when the scanned range holds no CR or LF;
\* else, CR LF counting as one terminator, forward the index just past the
\* first terminator and backward the index just before the nearest one, and
\* never the index of a byte of that terminator, also at the edge of the buffer.
C21_NewLineIndexIsOutsideTerminator ==
  call.op = "findNewLineIndex" =>
    IF lineBreaksFrom(data, call.direction, call.start) = {} THEN call.res = -1
    ELSE LET terminator ==
               terminatorAt(data, call.direction,
                            nearestLineBreak(data, call.direction, call.start))
         IN /\ call.res \notin terminator
            /\ call.direction /\ (\E k \in terminator : k + 1 \notin terminator /\ k + 1 <= maxIndexOf(data))
                 => \A k \in terminator : k + 1 \in terminator \/ call.res = k + 1
            /\ ~call.direction /\ (\E k \in terminator : k - 1 \notin terminator /\ k - 1 >= 0)
                 => \A k \in terminator : k - 1 \in terminator \/ call.res = k - 1
\* C22: ResourceDict.parse with a parseInfo does not throw; when the value that
\* follows one of the seven map keys cannot be parsed as a dictionary the
\* result is nil, and otherwise the result carries the start and the end of
\* parseInfo.bounds.
C22_ParseGivesNilOrBoundedResult ==
  rd # NotYet =>
    /\ rd # Throw
    /\ IF src.kind \in DictValues
       THEN "value" \in DOMAIN rd /\ rd.start = b.start /\ rd.end = b.end
       ELSE rd = Nil
\* C23: under every interleaving of pointer-up events, pointer-move events,
\* destroy() and the completions of createTempStampAnnotationAsync, no stamp is
\* passed to appendAnnotationToPage more than once.
C23_NoStampAppendedTwice ==
  annotator # Nil =>
    \A i \in 1..Len(annotator.appended), j \in 1..Len(annotator.appended) :
      annotator.appended[i] = annotator.appended[j] => i = j

====
